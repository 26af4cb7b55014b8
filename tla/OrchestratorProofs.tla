------------------------- MODULE OrchestratorProofs -------------------------
(***************************************************************************)
(* Theorems about Orchestrator, RunLifecycle, Replay and Lanes, for plans  *)
(* of any length, every mode, and any lanes beside the run.                *)
(*                                                                         *)
(* A script writes at most one row (RowAt), so where the process is tells  *)
(* what the rows are: Where says it, phase by phase, before and after that *)
(* call.  TypeOK /\ Where is inductive; it makes every row write find the  *)
(* guard of the lifecycle's action true, which is the refinement.  The     *)
(* types rest on ScriptCalls, which is about the scripts alone.            *)
(***************************************************************************)
EXTENDS Lanes, Replay, FiniteSetTheorems, TLAPS

\* The length of each script.
Steps(ph) ==
  CASE ph \in {"turn"} -> 0
    [] ph \in {"route", "announce", "ready", "begin"} -> 1
    [] ph \in {"create", "graph", "await", "cancel", "skip"} -> 2
    [] ph \in {"scan", "prompt"} -> 3
    [] ph \in {"planfail", "assign", "complete", "fail"} -> 4
    [] ph = "plan" -> 7
    [] ph \in {"won", "lost", "threw"} -> 9

\* The position of the one call of a script that writes a row, 0 if there is none.
RowAt(ph) ==
  CASE ph \in {"create", "ready", "await", "cancel", "begin", "skip", "complete", "fail"} -> 1
    [] ph = "assign" -> 2
    [] ph = "planfail" -> 3
    [] ph = "plan" -> 6
    [] ph \in {"won", "lost", "threw"} -> 7
    [] OTHER -> 0

\* The events that end a run, and the scripts that end with one.
Terminal == {"run.completed", "run.failed", "run.cancelled"}
Ending   == {"planfail", "cancel", "complete", "fail"}

\* The events that tell replay a status, and the scripts that end with one.
Told    == {"plan.created", "task.assigned", "task.completed", "task.failed", "task.skipped"} \cup Terminal
Telling == {"plan", "assign", "skip", "won", "lost", "threw"} \cup Ending

\* What the scripts are made of.
LEMMA ScriptCalls ==
  ASSUME NEW t \in Tasks, NEW ph \in Phases
  PROVE  /\ Len(Script(ph, t)) = Steps(ph)
         /\ \A i \in 1..Steps(ph) : Script(ph, t)[i] \in StoreCalls
         /\ \A i \in 1..Steps(ph) : i # RowAt(ph) => Script(ph, t)[i][1] \in {"event", "put"}
         /\ \A i \in 1..Steps(ph) : Script(ph, t)[i][2] = "agent.started" => ph = "prompt"
         /\ \A i \in 1..Steps(ph) : Script(ph, t)[i][2] \in Terminal => i = Steps(ph) /\ ph \in Ending
         /\ \A i \in 1..Steps(ph) : Script(ph, t)[i][2] \in Told => i = Steps(ph) /\ ph \in Telling
<1>. USE OrchestratorAssumption DEF StoreCalls, EventType, ArtifactKind, Ordinals, Lifecycle!RunStatus,
       Lifecycle!TaskStatus, Tasks, Steps, RowAt, Ev, TaskEv, Status, TaskStatus, Put, TaskPut, Settled, Verdict,
       Terminal, Ending, Told, Telling
<1>1. CASE ph = "create"
  <2>1. Script(ph, t) = << Status("created"), Ev("run.created") >>
    BY <1>1 DEF Script
  <2>2. QED
    BY <1>1, <2>1
<1>2. CASE ph = "scan"
  <2>1. Script(ph, t) = << Ev("route.selected"), Ev("repo.scanned"), Ev("agents.detected") >>
    BY <1>2 DEF Script
  <2>2. QED
    BY <1>2, <2>1
<1>3. CASE ph = "planfail"
  <2>1. Script(ph, t) = << Put("planner.error"), Ev("planner.failed"), Status("failed"), Ev("run.failed") >>
    BY <1>3 DEF Script
  <2>2. QED
    BY <1>3, <2>1
<1>4. CASE ph = "graph"
  <2>1. Script(ph, t) = << Put("graph.context"), Ev("graph.context.created") >>
    BY <1>4 DEF Script
  <2>2. QED
    BY <1>4, <2>1
<1>5. CASE ph = "route"
  <2>1. Script(ph, t) = << TaskEv(t, "route.policy.selected") >>
    BY <1>5 DEF Script
  <2>2. QED
    BY <1>5, <2>1
<1>6. CASE ph = "plan"
  <2>1. Script(ph, t) = << Put("planner.prompt"), Put("planner.response"), Put("plan.json"), Put("artifact.plan.json"), Put("artifact.plan.md"), <<"insert", "tasks", 0>>, Ev("plan.created") >>
    BY <1>6 DEF Script
  <2>2. QED
    BY <1>6, <2>1
<1>7. CASE ph = "announce"
  <2>1. Script(ph, t) = << TaskEv(t, "task.created") >>
    BY <1>7 DEF Script
  <2>2. QED
    BY <1>7, <2>1
<1>8. CASE ph = "ready"
  <2>1. Script(ph, t) = << Status("planned") >>
    BY <1>8 DEF Script
  <2>2. QED
    BY <1>8, <2>1
<1>9. CASE ph = "await"
  <2>1. Script(ph, t) = << Status("awaiting_confirmation"), Ev("run.confirmation_required") >>
    BY <1>9 DEF Script
  <2>2. QED
    BY <1>9, <2>1
<1>10. CASE ph = "cancel"
  <2>1. Script(ph, t) = << Status("cancelled"), Ev("run.cancelled") >>
    BY <1>10 DEF Script
  <2>2. QED
    BY <1>10, <2>1
<1>11. CASE ph = "begin"
  <2>1. Script(ph, t) = << Status("running") >>
    BY <1>11 DEF Script
  <2>2. QED
    BY <1>11, <2>1
<1>12. CASE ph = "assign"
  <2>1. Script(ph, t) = << TaskPut(t, "context.packet"), TaskStatus(t, "assigned"), TaskEv(t, "context.created"), TaskEv(t, "task.assigned") >>
    BY <1>12 DEF Script
  <2>2. QED
    BY <1>12, <2>1
<1>13. CASE ph = "skip"
  <2>1. Script(ph, t) = << TaskStatus(t, "skipped"), TaskEv(t, "task.skipped") >>
    BY <1>13 DEF Script
  <2>2. QED
    BY <1>13, <2>1
<1>14. CASE ph = "prompt"
  <2>1. Script(ph, t) = << TaskPut(t, "agent.input"), TaskEv(t, "agent.input.created"), TaskEv(t, "agent.started") >>
    BY <1>14 DEF Script
  <2>2. QED
    BY <1>14, <2>1
<1>15. CASE ph = "won"
  <2>1. Script(ph, t) = Settled(t, "agent.completed", "completed", "task.completed")
    BY <1>15 DEF Script
  <2>2. QED
    BY <1>15, <2>1
<1>16. CASE ph = "lost"
  <2>1. Script(ph, t) = Settled(t, "agent.completed", "failed", "task.failed")
    BY <1>16 DEF Script
  <2>2. QED
    BY <1>16, <2>1
<1>17. CASE ph = "threw"
  <2>1. Script(ph, t) = Settled(t, "agent.failed", "failed", "task.failed")
    BY <1>17 DEF Script
  <2>2. QED
    BY <1>17, <2>1
<1>18. CASE ph = "complete"
  <2>1. Script(ph, t) = Verdict("completed", "review.accepted", "verify.pass", "run.completed")
    BY <1>18 DEF Script
  <2>2. QED
    BY <1>18, <2>1
<1>19. CASE ph = "fail"
  <2>1. Script(ph, t) = Verdict("failed", "review.rejected", "verify.fail", "run.failed")
    BY <1>19 DEF Script
  <2>2. QED
    BY <1>19, <2>1
<1>20. CASE ph = "turn"
  <2>1. Script(ph, t) = << >>
    BY <1>20 DEF Script
  <2>2. QED
    BY <1>20, <2>1
<1>21. QED
  BY <1>1, <1>2, <1>3, <1>4, <1>5, <1>6, <1>7, <1>8, <1>9, <1>10, <1>11, <1>12, <1>13, <1>14, <1>15, <1>16, <1>17, <1>18, <1>19, <1>20 DEF Phases

\* The calls that write rows.
LEMMA RowCalls ==
  ASSUME NEW t \in Tasks
  PROVE  /\ Script("create", t)[1]   = <<"status", "created", 0>>
         /\ Script("planfail", t)[3] = <<"status", "failed", 0>>
         /\ Script("plan", t)[6]     = <<"insert", "tasks", 0>>
         /\ Script("ready", t)[1]    = <<"status", "planned", 0>>
         /\ Script("await", t)[1]    = <<"status", "awaiting_confirmation", 0>>
         /\ Script("cancel", t)[1]   = <<"status", "cancelled", 0>>
         /\ Script("begin", t)[1]    = <<"status", "running", 0>>
         /\ Script("assign", t)[2]   = <<"task", "assigned", t>>
         /\ Script("skip", t)[1]     = <<"task", "skipped", t>>
         /\ Script("won", t)[7]      = <<"task", "completed", t>>
         /\ Script("lost", t)[7]     = <<"task", "failed", t>>
         /\ Script("threw", t)[7]    = <<"task", "failed", t>>
         /\ Script("complete", t)[1] = <<"status", "completed", 0>>
         /\ Script("fail", t)[1]     = <<"status", "failed", 0>>
<1>. USE DEF Ev, TaskEv, Status, TaskStatus, Put, TaskPut, Settled, Verdict
<1>1. /\ Script("create", t)[1]   = <<"status", "created", 0>>
      /\ Script("planfail", t)[3] = <<"status", "failed", 0>>
  BY DEF Script
<1>2. Script("plan", t)[6] = <<"insert", "tasks", 0>>
  BY DEF Script
<1>3. /\ Script("ready", t)[1]  = <<"status", "planned", 0>>
      /\ Script("await", t)[1]  = <<"status", "awaiting_confirmation", 0>>
      /\ Script("cancel", t)[1] = <<"status", "cancelled", 0>>
      /\ Script("begin", t)[1]  = <<"status", "running", 0>>
  BY DEF Script
<1>4. /\ Script("assign", t)[2] = <<"task", "assigned", t>>
      /\ Script("skip", t)[1]   = <<"task", "skipped", t>>
  BY DEF Script
<1>5. Script("won", t)[7] = <<"task", "completed", t>>
  BY DEF Script
<1>6. Script("lost", t)[7] = <<"task", "failed", t>>
  BY DEF Script
<1>7. Script("threw", t)[7] = <<"task", "failed", t>>
  BY DEF Script
<1>8. /\ Script("complete", t)[1] = <<"status", "completed", 0>>
      /\ Script("fail", t)[1]     = <<"status", "failed", 0>>
  BY DEF Script
<1>9. QED
  BY <1>1, <1>2, <1>3, <1>4, <1>5, <1>6, <1>7, <1>8

-----------------------------------------------------------------------------
(* The inductive invariant: what the rows are, from where the process is.  *)

Turning == {"turn", "assign", "skip", "prompt", "won", "lost", "threw", "complete", "fail"}
Blank   == {"create", "scan", "planfail", "graph", "route"}
Waiting == {"announce", "ready", "await", "cancel", "begin"}

\* The run's row before and after the phase's one call that writes it.
StatusBefore ==
  CASE phase = "create" -> "absent"
    [] phase \in {"scan", "planfail", "graph", "route", "plan", "announce", "ready"} -> "created"
    [] phase \in {"await", "cancel", "begin"} -> "planned"
    [] OTHER -> "running"

StatusAfter ==
  CASE phase = "create"   -> "created"
    [] phase = "ready"    -> "planned"
    [] phase = "await"    -> "awaiting_confirmation"
    [] phase = "cancel"   -> "cancelled"
    [] phase = "begin"    -> "running"
    [] phase = "complete" -> "completed"
    [] phase \in {"planfail", "fail"} -> "failed"
    [] OTHER -> StatusBefore

StatusHere == status = IF k <= RowAt(phase) THEN StatusBefore ELSE StatusAfter

\* The row of the task at hand, likewise.
CurBefore ==
  CASE phase \in {"turn", "assign"} -> {"pending"}
    [] phase = "complete" -> Lifecycle!DoneTask
    [] phase = "fail"     -> {"failed"}
    [] OTHER              -> {"assigned"}

CurAfter ==
  CASE phase = "assign" -> {"assigned"}
    [] phase = "skip"   -> {"skipped"}
    [] phase = "won"    -> {"completed"}
    [] phase \in {"lost", "threw"} -> {"failed"}
    [] OTHER -> CurBefore

Untouched == \A t \in Tasks : task[t] = "none"
Fresh     == \A t \in Tasks : task[t] = IF t <= count THEN "pending" ELSE "none"
AtTurn    ==
  /\ \A t \in Tasks : t < cur => task[t] \in Lifecycle!DoneTask
  /\ task[cur] \in IF k <= RowAt(phase) THEN CurBefore ELSE CurAfter
  /\ \A t \in Tasks : cur < t => task[t] = IF t <= count THEN "pending" ELSE "none"

TasksHere ==
  /\ phase \in Blank => Untouched
  /\ phase = "plan" => IF k <= 6 THEN Untouched ELSE Fresh
  /\ phase \in Waiting => Fresh
  /\ phase \in Turning => AtTurn

Where ==
  /\ phase \notin {"create", "scan", "planfail"} => cur <= count
  /\ phase = "complete" => cur = count
  /\ phase \in {"create", "scan", "ready", "await", "cancel", "begin"} => cur = 1
  /\ StatusHere /\ TasksHere

IInv == TypeOK /\ Where

Advance == k' = k + 1 /\ UNCHANGED <<mode, consent, count, phase, cur, ended>>

\* What a store call does to the rows.
LEMMA CallEffect ==
  ASSUME TypeOK, StoreCall
  PROVE  /\ k \in 1..Steps(phase) /\ Advance
         /\ k # RowAt(phase) => UNCHANGED <<status, task>>
         /\ Call[1] = "status" => status' = Call[2] /\ task' = task
         /\ Call[1] = "task" => task' = [task EXCEPT ![Call[3]] = Call[2]] /\ status' = status
         /\ Call[1] = "insert" => task' = [t \in Tasks |-> IF t <= count THEN "pending" ELSE "none"]
                                 /\ status' = status
<1>1. k \in 1..Steps(phase)
  BY ScriptCalls DEF TypeOK, StoreCall, InScript
<1>2. Advance
  BY DEF StoreCall, Advance
<1>3. k # RowAt(phase) => Call[1] \in {"event", "put"}
  BY <1>1, ScriptCalls DEF TypeOK, Call
<1>4. QED
  BY <1>1, <1>2, <1>3 DEF StoreCall, WriteEvent, SetRunStatus, SetTaskStatus, PutArtifact, InsertTasks

\* A store call keeps the types.
LEMMA CallTypes ==
  ASSUME TypeOK, StoreCall
  PROVE  TypeOK'
<1>1. k \in 1..Steps(phase) /\ Call \in StoreCalls
  BY ScriptCalls DEF TypeOK, StoreCall, InScript, Call
<1>2. phase' = phase /\ cur' = cur /\ k' = k + 1
  BY DEF StoreCall
<1>3. k' \in 1..(Len(Script(phase', cur')) + 1)
  <2>1. Len(Script(phase, cur)) = Steps(phase) /\ Steps(phase) \in Nat
    BY ScriptCalls DEF TypeOK, Phases, Steps
  <2>2. Len(Script(phase', cur')) = Steps(phase)
    BY <1>2, <2>1
  <2>3. QED
    BY <1>1, <1>2, <2>1, <2>2
<1>4. /\ Call[1] = "event" => Call[2] \in EventType /\ Call[3] \in Ordinals
      /\ Call[1] = "put" => Call[2] \in ArtifactKind /\ Call[3] \in Ordinals
      /\ Call[1] = "status" => Call[2] \in Lifecycle!RunStatus
      /\ Call[1] = "task" => Call[2] \in Lifecycle!TaskStatus
  BY <1>1 DEF StoreCalls
<1>5. events' \in Seq(EventType \X Ordinals)
  <2>1. CASE WriteEvent
    <3>1. <<Call[2], Call[3]>> \in EventType \X Ordinals
      BY <1>4, <2>1 DEF WriteEvent
    <3>2. QED
      BY <2>1, <3>1 DEF WriteEvent, TypeOK
  <2>2. CASE ~WriteEvent
    BY <2>2 DEF StoreCall, SetRunStatus, SetTaskStatus, PutArtifact, InsertTasks, TypeOK
  <2>3. QED
    BY <2>1, <2>2
<1>6. artifacts' \subseteq ArtifactKind \X Ordinals
  <2>1. CASE PutArtifact
    <3>1. <<Call[2], Call[3]>> \in ArtifactKind \X Ordinals
      BY <1>4, <2>1 DEF PutArtifact
    <3>2. QED
      BY <2>1, <3>1 DEF PutArtifact, TypeOK
  <2>2. CASE ~PutArtifact
    BY <2>2 DEF StoreCall, SetRunStatus, SetTaskStatus, WriteEvent, InsertTasks, TypeOK
  <2>3. QED
    BY <2>1, <2>2
<1>7. status' \in Lifecycle!RunStatus /\ task' \in [Tasks -> Lifecycle!TaskStatus]
  BY <1>4 DEF TypeOK, StoreCall, WriteEvent, SetRunStatus, SetTaskStatus, PutArtifact, InsertTasks,
              Lifecycle!TaskStatus
<1>8. QED
  BY <1>3, <1>5, <1>6, <1>7 DEF TypeOK, StoreCall

\* What a store call writes in each phase, and that it is a step of the lifecycle.
LEMMA CallStep ==
  ASSUME IInv, StoreCall
  PROVE  Where' /\ [Lifecycle!Next]_Lifecycle!lifecycle
<1>. USE OrchestratorAssumption DEF IInv
<1>1. /\ k \in 1..Steps(phase) /\ Advance
      /\ k # RowAt(phase) => UNCHANGED <<status, task>>
  BY CallEffect
<1>2. cur \in Tasks /\ count \in 0..MaxTasks /\ k \in Nat /\ Call = Script(phase, cur)[k]
  BY <1>1 DEF TypeOK, Call, Tasks
<1>3. CASE k # RowAt(phase)
  <2>1. UNCHANGED <<status, task, phase, cur, count>> /\ k' = k + 1
    BY <1>1, <1>3 DEF Advance
  <2>2. k' <= RowAt(phase) <=> k <= RowAt(phase)
    BY <1>2, <1>3, <2>1 DEF RowAt
  <2>3. StatusHere'
    BY <2>1, <2>2 DEF Where, StatusHere, StatusBefore, StatusAfter, RowAt
  <2>4. TasksHere'
    BY <2>1, <2>2, <1>2 DEF Where, TasksHere, Untouched, Fresh, AtTurn, CurBefore, CurAfter, RowAt, Turning
  <2>5. QED
    BY <2>1, <2>3, <2>4 DEF Where, Lifecycle!lifecycle
<1>4. CASE k = RowAt(phase)
  <2>1. UNCHANGED <<phase, cur, count>> /\ k' = k + 1
    BY <1>1 DEF Advance
  <2>2. CASE phase = "create"
    <3>1. status = "absent" /\ status' = "created" /\ task' = task
      BY <1>2, <1>4, <2>2, CallEffect, RowCalls
         DEF RowAt, Where, StatusHere, StatusBefore
    <3>2. Lifecycle!Next
      BY <3>1 DEF Lifecycle!Next, Lifecycle!Move
    <3>3. Where'
      BY <1>2, <1>4, <2>1, <2>2, <3>1
         DEF RowAt, Where, StatusHere, StatusBefore, StatusAfter, TasksHere, Blank, Waiting, Turning, Untouched, Fresh
    <3>4. QED
      BY <3>2, <3>3
  <2>3. CASE phase = "ready"
    <3>1. status = "created" /\ status' = "planned" /\ task' = task /\ task[1] = "pending"
      BY <1>2, <1>4, <2>3, CallEffect, RowCalls
         DEF RowAt, Where, StatusHere, StatusBefore, TasksHere, Waiting, Fresh, Tasks
    <3>2. Lifecycle!Next
      BY <3>1 DEF Lifecycle!Next, Lifecycle!Move, Lifecycle!Planned
    <3>3. Where'
      BY <1>2, <1>4, <2>1, <2>3, <3>1
         DEF RowAt, Where, StatusHere, StatusBefore, StatusAfter, TasksHere, Blank, Waiting, Turning, Untouched, Fresh
    <3>4. QED
      BY <3>2, <3>3
  <2>4. CASE phase = "await"
    <3>1. status = "planned" /\ status' = "awaiting_confirmation" /\ task' = task
      BY <1>2, <1>4, <2>4, CallEffect, RowCalls
         DEF RowAt, Where, StatusHere, StatusBefore
    <3>2. Lifecycle!Next
      BY <3>1 DEF Lifecycle!Next, Lifecycle!Move
    <3>3. Where'
      BY <1>2, <1>4, <2>1, <2>4, <3>1
         DEF RowAt, Where, StatusHere, StatusBefore, StatusAfter, TasksHere, Blank, Waiting, Turning, Untouched, Fresh
    <3>4. QED
      BY <3>2, <3>3
  <2>5. CASE phase = "cancel"
    <3>1. status = "planned" /\ status' = "cancelled" /\ task' = task
      BY <1>2, <1>4, <2>5, CallEffect, RowCalls
         DEF RowAt, Where, StatusHere, StatusBefore
    <3>2. Lifecycle!Next
      BY <3>1 DEF Lifecycle!Next, Lifecycle!Move
    <3>3. Where'
      BY <1>2, <1>4, <2>1, <2>5, <3>1
         DEF RowAt, Where, StatusHere, StatusBefore, StatusAfter, TasksHere, Blank, Waiting, Turning, Untouched, Fresh
    <3>4. QED
      BY <3>2, <3>3
  <2>6. CASE phase = "begin"
    <3>1. status = "planned" /\ status' = "running" /\ task' = task
      BY <1>2, <1>4, <2>6, CallEffect, RowCalls
         DEF RowAt, Where, StatusHere, StatusBefore
    <3>2. Lifecycle!Next
      BY <3>1 DEF Lifecycle!Next, Lifecycle!Move
    <3>3. Where'
      BY <1>2, <1>4, <2>1, <2>6, <3>1
         DEF RowAt, Where, StatusHere, StatusBefore, StatusAfter, TasksHere, Blank, Waiting, Turning, Untouched, Fresh
    <3>4. QED
      BY <3>2, <3>3
  <2>7. CASE phase = "planfail"
    <3>1. status = "created" /\ status' = "failed" /\ task' = task /\ Untouched
      BY <1>2, <1>4, <2>7, CallEffect, RowCalls
         DEF RowAt, Where, StatusHere, StatusBefore, TasksHere, Blank
    <3>2. Lifecycle!Next
      BY <3>1 DEF Lifecycle!Next, Lifecycle!NoPlan, Lifecycle!Move, Untouched, Tasks, Lifecycle!Tasks
    <3>3. Where'
      BY <1>2, <1>4, <2>1, <2>7, <3>1
         DEF RowAt, Where, StatusHere, StatusBefore, StatusAfter, TasksHere, Blank, Waiting, Turning, Untouched
    <3>4. QED
      BY <3>2, <3>3
  <2>8. CASE phase = "plan"
    <3>1. /\ status = "created" /\ status' = status /\ Untouched
          /\ task' = [t \in Tasks |-> IF t <= count THEN "pending" ELSE "none"]
      BY <1>2, <1>4, <2>8, CallEffect, RowCalls
         DEF RowAt, Where, StatusHere, StatusBefore, StatusAfter, TasksHere
    <3>2. count \in Tasks
      BY <1>2, <2>8 DEF Where, Tasks
    <3>3. Lifecycle!Plan(count)
      BY <3>1 DEF Lifecycle!Plan, Untouched, Tasks, Lifecycle!Tasks
    <3>4. Where'
      BY <1>2, <1>4, <2>1, <2>8, <3>1
         DEF RowAt, Where, StatusHere, StatusBefore, StatusAfter, TasksHere, Blank, Waiting, Turning, Fresh
    <3>5. QED
      BY <3>2, <3>3, <3>4 DEF Lifecycle!Next, Tasks, Lifecycle!Tasks
  <2>9. CASE phase = "assign"
    <3>1. /\ status = "running" /\ status' = status /\ AtTurn /\ task[cur] = "pending"
          /\ task' = [task EXCEPT ![cur] = "assigned"]
      BY <1>2, <1>4, <2>9, CallEffect, RowCalls
         DEF RowAt, Where, StatusHere, StatusBefore, StatusAfter, TasksHere, Turning, AtTurn, CurBefore
    <3>2. Lifecycle!Assign(cur)
      BY <3>1 DEF Lifecycle!Assign, AtTurn, Tasks, Lifecycle!Tasks
    <3>3. Where'
      BY <1>2, <1>4, <2>1, <2>9, <3>1
         DEF TypeOK, RowAt, Where, StatusHere, StatusBefore, StatusAfter, TasksHere, Blank, Waiting, Turning, AtTurn, CurBefore, CurAfter, Tasks
    <3>4. QED
      BY <1>2, <3>2, <3>3 DEF Lifecycle!Next, Tasks, Lifecycle!Tasks
  <2>10. CASE phase \in {"skip", "won", "lost", "threw"}
    <3>1. status = "running" /\ AtTurn /\ task[cur] = "assigned"
      BY <1>2, <1>4, <2>10
         DEF RowAt, Where, StatusHere, StatusBefore, TasksHere, Turning, AtTurn, CurBefore
    <3>2. Call[1] = "task" /\ Call[3] = cur /\ Call[2] \in {"skipped", "completed", "failed"}
          /\ Call[2] \in CurAfter
      BY <1>2, <1>4, <2>10, RowCalls DEF RowAt, CurAfter
    <3>3. status' = status /\ task' = [task EXCEPT ![cur] = Call[2]]
      BY <3>2, CallEffect
    <3>4. Lifecycle!Settle(cur)
      BY <3>1, <3>2, <3>3 DEF Lifecycle!Settle, Lifecycle!DoneTask
    <3>5. Where'
      BY <1>2, <1>4, <2>1, <2>10, <3>1, <3>2, <3>3
         DEF TypeOK, RowAt, Where, StatusHere, StatusBefore, StatusAfter, TasksHere, Blank, Waiting, Turning, AtTurn, CurBefore, CurAfter, Tasks
    <3>6. QED
      BY <1>2, <3>4, <3>5 DEF Lifecycle!Next, Tasks, Lifecycle!Tasks
  <2>11. CASE phase = "complete"
    <3>1. status = "running" /\ status' = "completed" /\ task' = task /\ AtTurn /\ cur = count
          /\ task[cur] \in Lifecycle!DoneTask
      BY <1>2, <1>4, <2>11, CallEffect, RowCalls
         DEF RowAt, Where, StatusHere, StatusBefore, TasksHere, Turning, AtTurn, CurBefore
    <3>2. Lifecycle!Completes
      BY <1>2, <3>1 DEF Lifecycle!Completes, Lifecycle!Move, AtTurn, Tasks, Lifecycle!Tasks
    <3>3. Where'
      BY <1>2, <1>4, <2>1, <2>11, <3>1
         DEF RowAt, Where, StatusHere, StatusBefore, StatusAfter, TasksHere, Blank, Waiting, Turning, AtTurn, CurBefore, CurAfter
    <3>4. QED
      BY <3>2, <3>3 DEF Lifecycle!Next
  <2>12. CASE phase = "fail"
    <3>1. status = "running" /\ status' = "failed" /\ task' = task /\ AtTurn /\ task[cur] = "failed"
      BY <1>2, <1>4, <2>12, CallEffect, RowCalls
         DEF RowAt, Where, StatusHere, StatusBefore, TasksHere, Turning, AtTurn, CurBefore
    <3>2. Lifecycle!Fails
      BY <1>2, <3>1 DEF Lifecycle!Fails, Lifecycle!Move, Tasks, Lifecycle!Tasks
    <3>3. Where'
      BY <1>2, <1>4, <2>1, <2>12, <3>1
         DEF RowAt, Where, StatusHere, StatusBefore, StatusAfter, TasksHere, Blank, Waiting, Turning, AtTurn, CurBefore, CurAfter
    <3>4. QED
      BY <3>2, <3>3 DEF Lifecycle!Next
  <2>13. phase \in {"create", "ready", "await", "cancel", "begin", "planfail", "plan", "assign",
                   "skip", "won", "lost", "threw", "complete", "fail"}
    BY <1>1, <1>4 DEF RowAt, TypeOK, Phases
  <2>14. QED
    BY <2>2, <2>3, <2>4, <2>5, <2>6, <2>7, <2>8, <2>9, <2>10, <2>11, <2>12, <2>13
<1>5. QED
  BY <1>3, <1>4

-----------------------------------------------------------------------------
\* A decision that goes on starts the next phase's script; the rows stay.
LEMMA GotoTypes ==
  ASSUME TypeOK, NEW ph \in Phases, Goto(ph), cur' \in Tasks, count' \in 0..MaxTasks,
         consent' \in {"none", "yes", "no"}
  PROVE  TypeOK'
<1>1. Len(Script(ph, cur')) \in Nat
  BY ScriptCalls DEF Phases, Steps
<1>2. phase' = ph /\ k' = 1 /\ UNCHANGED <<mode, store, ended>>
  BY DEF Goto
<1>3. k' \in 1..(Len(Script(phase', cur')) + 1)
  BY <1>1, <1>2
<1>4. QED
  BY <1>2, <1>3 DEF TypeOK, store

\* A decision finds the whole script of its phase done.
LEMMA ScriptEnd ==
  ASSUME TypeOK, NEW ph \in Phases, At(ph)
  PROVE  phase = ph /\ k = Steps(ph) + 1 /\ k \in Nat /\ cur \in Tasks /\ count \in 0..MaxTasks
         /\ Steps(ph) \in Nat
<1>1. Len(Script(ph, cur)) = Steps(ph)
  BY ScriptCalls DEF TypeOK
<1>2. Steps(ph) \in Nat
  BY DEF Steps, Phases
<1>3. QED
  BY <1>1, <1>2 DEF At, TypeOK

\* The end of the process leaves everything where it is.
LEMMA ExitStep ==
  ASSUME IInv, NEW how \in {"returned", "raised", "died"}, Exit(how)
  PROVE  IInv' /\ UNCHANGED <<status, task>>
BY DEF Exit, IInv, TypeOK, Where, store, StatusHere, TasksHere, StatusBefore, StatusAfter, Untouched, Fresh,
       AtTurn, CurBefore, CurAfter

\* The decisions that change neither the task at hand nor the number of tasks.
FromPhases ==
  {<<"create", "scan">>, <<"scan", "planfail">>, <<"graph", "route">>, <<"plan", "announce">>,
   <<"ready", "await">>, <<"ready", "begin">>, <<"ready", "cancel">>, <<"begin", "turn">>,
   <<"turn", "assign">>, <<"assign", "skip">>, <<"assign", "prompt">>, <<"prompt", "won">>,
   <<"prompt", "lost">>, <<"prompt", "threw">>, <<"lost", "fail">>, <<"threw", "fail">>}

\* Such a decision keeps the invariant and the rows.
LEMMA FromStep ==
  ASSUME IInv, NEW a \in Phases, NEW b \in Phases, <<a, b>> \in FromPhases, At(a), Goto(b),
         UNCHANGED <<count, cur>>, consent' \in {"none", "yes", "no"}
  PROVE  IInv' /\ UNCHANGED <<status, task>>
<1>1. TypeOK' /\ UNCHANGED <<status, task>>
  BY GotoTypes DEF IInv, TypeOK, Goto, store
<1>2. /\ phase = a /\ k = Steps(a) + 1 /\ k \in Nat /\ cur \in Tasks /\ count \in 0..MaxTasks
      /\ phase' = b /\ k' = 1 /\ UNCHANGED <<status, task, count, cur>>
  BY <1>1, ScriptEnd DEF IInv, Goto
<1>3. StatusHere'
  BY <1>2 DEF IInv, Where, StatusHere, StatusBefore, StatusAfter, RowAt, Steps, FromPhases
<1>4. TasksHere'
  <2>1. CASE b \in Blank
    BY <1>2, <2>1 DEF IInv, Where, TasksHere, Untouched, FromPhases, Blank, Waiting, Turning
  <2>2. CASE b \in Waiting
    BY <1>2, <2>2 DEF IInv, Where, TasksHere, Fresh, FromPhases, Blank, Waiting, Turning, Steps
  <2>3. CASE b = "turn"
    <3>1. Fresh /\ cur = 1 /\ cur <= count
      BY <1>2, <2>3 DEF IInv, Where, TasksHere, FromPhases, Waiting
    <3>2. AtTurn'
      BY <1>2, <2>3, <3>1 DEF Fresh, AtTurn, CurBefore, CurAfter, RowAt, Tasks
    <3>3. QED
      BY <1>2, <2>3, <3>2 DEF TasksHere, Blank, Waiting
  <2>4. CASE b \in Turning \ {"turn"}
    <3>1. AtTurn
      BY <1>2, <2>4 DEF IInv, Where, TasksHere, FromPhases, Turning
    <3>2. AtTurn'
      BY <1>2, <2>4, <3>1 DEF AtTurn, CurBefore, CurAfter, RowAt, FromPhases, Steps, Turning
    <3>3. QED
      BY <1>2, <2>4, <3>2 DEF TasksHere, Blank, Waiting, Turning
  <2>5. QED
    BY <2>1, <2>2, <2>3, <2>4 DEF Blank, Waiting, Turning, FromPhases
<1>5. QED
  BY <1>1, <1>2, <1>3, <1>4 DEF IInv, Where, FromPhases

\* The decisions that take the next task, or choose a plan.
LEMMA LoopStep ==
  ASSUME IInv, ForEachTask("route", "plan") \/ ForEachTask("announce", "ready") \/ PlannerPlans \/ NextTask
  PROVE  IInv' /\ UNCHANGED <<status, task>>
<1>. USE OrchestratorAssumption
<1>1. CASE ForEachTask("route", "plan") \/ ForEachTask("announce", "ready")
  <2>1. PICK a \in {"route", "announce"}, b \in {"route", "announce", "plan", "ready"} :
          /\ At(a) /\ Goto(b) /\ UNCHANGED <<consent, count>>
          /\ \/ cur < count /\ cur' = cur + 1 /\ b = a
             \/ cur = count /\ cur' = 1 /\ <<a, b>> \in {<<"route", "plan">>, <<"announce", "ready">>}
    BY <1>1 DEF ForEachTask
  <2>2. /\ phase = a /\ k = Steps(a) + 1 /\ k \in Nat /\ cur \in Tasks /\ count \in 0..MaxTasks
        /\ phase' = b /\ k' = 1 /\ UNCHANGED <<status, task, count>>
    BY <2>1, ScriptEnd DEF IInv, Goto, Phases, store
  <2>3. cur' \in Tasks /\ cur' <= count
    BY <2>1, <2>2 DEF Tasks
  <2>4. TypeOK'
    BY <2>1, <2>2, <2>3, GotoTypes DEF IInv, TypeOK, Phases
  <2>5. Where'
    BY <2>1, <2>2, <2>3 DEF IInv, Where, StatusHere, StatusBefore, StatusAfter, RowAt, Steps, TasksHere, Untouched,
       Fresh, Blank, Waiting, Turning
  <2>6. QED
    BY <2>2, <2>4, <2>5 DEF IInv
<1>2. CASE PlannerPlans
  <2>1. PICK b \in {"graph", "route"} : At("scan") /\ Goto(b) /\ UNCHANGED <<consent, cur>> /\ count' \in Tasks
    BY <1>2 DEF PlannerPlans
  <2>2. /\ phase = "scan" /\ k = Steps("scan") + 1 /\ cur \in Tasks
        /\ phase' = b /\ k' = 1 /\ UNCHANGED <<status, task, cur>>
    BY <2>1, ScriptEnd DEF IInv, Goto, Phases, store
  <2>3. TypeOK'
    BY <2>1, <2>2, GotoTypes DEF IInv, TypeOK, Phases, Tasks
  <2>4. Where'
    BY <2>1, <2>2 DEF IInv, Where, StatusHere, StatusBefore, StatusAfter, RowAt, Steps, TasksHere, Untouched,
       Blank, Waiting, Turning, Tasks
  <2>5. QED
    BY <2>2, <2>3, <2>4 DEF IInv
<1>3. CASE NextTask
  <2>1. PICK a \in {"won", "skip"}, b \in {"turn", "complete"} :
          /\ At(a) /\ Goto(b) /\ UNCHANGED <<consent, count>>
          /\ \/ cur < count /\ cur' = cur + 1 /\ b = "turn"
             \/ cur = count /\ cur' = cur /\ b = "complete"
    BY <1>3 DEF NextTask
  <2>2. /\ phase = a /\ k = Steps(a) + 1 /\ k \in Nat /\ cur \in Tasks /\ count \in 0..MaxTasks
        /\ phase' = b /\ k' = 1 /\ UNCHANGED <<status, task, count>>
    BY <2>1, ScriptEnd DEF IInv, Goto, Phases, store
  <2>3. cur' \in Tasks /\ cur' <= count
    BY <2>1, <2>2 DEF Tasks
  <2>4. TypeOK'
    BY <2>1, <2>2, <2>3, GotoTypes DEF IInv, TypeOK, Phases
  <2>5. AtTurn /\ task[cur] \in Lifecycle!DoneTask
    BY <2>2 DEF IInv, Where, TasksHere, Turning, AtTurn, CurBefore, CurAfter, RowAt, Steps, Lifecycle!DoneTask
  <2>6. AtTurn'
    <3>1. CASE b = "turn"
      BY <2>1, <2>2, <2>3, <2>5, <3>1 DEF AtTurn, CurBefore, CurAfter, RowAt, Tasks
    <3>2. CASE b = "complete"
      BY <2>1, <2>2, <2>5, <3>2 DEF AtTurn, CurBefore, CurAfter, RowAt
    <3>3. QED
      BY <3>1, <3>2
  <2>7. StatusHere'
    BY <2>1, <2>2 DEF IInv, Where, StatusHere, StatusBefore, StatusAfter, RowAt, Steps
  <2>8. QED
    BY <2>1, <2>2, <2>3, <2>4, <2>6, <2>7 DEF IInv, Where, TasksHere, Blank, Waiting
<1>4. QED
  BY <1>1, <1>2, <1>3

\* Every decision is one of these, and none writes a row.
LEMMA DecideStep ==
  ASSUME IInv, Decide \/ Asked \/ Dies
  PROVE  IInv' /\ UNCHANGED <<status, task>>
<1>1. CASE Decide
  <2>1. CASE ConfigRaises \/ PlannerRaises \/ PlanReturns \/ ConfirmationRequired \/ Declined \/ NoAgents
             \/ BeforeTurnRaises \/ AfterRun \/ AfterRunRaises
    BY <2>1, ExitStep DEF ConfigRaises, PlannerRaises, PlanReturns, ConfirmationRequired, Declined, NoAgents,
       BeforeTurnRaises, AfterRun, AfterRunRaises
  <2>2. CASE ConfigLoads \/ PlannerFails \/ GraphStored \/ PlanStored \/ Unattended \/ NotAsked \/ RunBegins
             \/ BeforeTurn \/ DryRun \/ Prompts \/ AgentReturns \/ StopAtFailure
    <3>1. PICK a \in Phases, b \in Phases : <<a, b>> \in FromPhases /\ From(a, b)
      BY <2>2 DEF ConfigLoads, PlannerFails, GraphStored, PlanStored, Unattended, NotAsked, RunBegins, BeforeTurn,
         DryRun, Prompts, AgentReturns, StopAtFailure, FromPhases, Phases
    <3>2. QED
      BY <3>1, FromStep DEF From, IInv, TypeOK
  <2>3. CASE RouteNext \/ AnnounceNext \/ PlannerPlans \/ NextTask
    BY <2>3, LoopStep DEF RouteNext, AnnounceNext
  <2>4. QED
    BY <1>1, <2>1, <2>2, <2>3 DEF Decide
<1>2. CASE Asked
  <2>1. PICK b \in {"begin", "cancel"} : /\ At("ready") /\ Goto(b) /\ UNCHANGED <<count, cur>>
                                         /\ consent' \in {"none", "yes", "no"}
    BY <1>2 DEF Asked, Answer
  <2>2. QED
    BY <2>1, FromStep DEF FromPhases, Phases
<1>3. CASE Dies
  BY <1>3, ExitStep DEF Dies
<1>4. QED
  BY <1>1, <1>2, <1>3

\* The invariant holds at the start.
LEMMA InvInit == Init => IInv
<1>. SUFFICES ASSUME Init PROVE IInv
  OBVIOUS
<1>1. cur = 1 /\ 1 \in Tasks /\ phase = "create" /\ k = 1 /\ status = "absent" /\ Untouched
  BY OrchestratorAssumption DEF Init, Tasks, Untouched
<1>2. Len(Script(phase, cur)) = 2
  BY <1>1, ScriptCalls DEF Phases, Steps
<1>3. events \in Seq(EventType \X Ordinals)
  BY DEF Init
<1>4. TypeOK
  BY <1>1, <1>2, <1>3, OrchestratorAssumption DEF Init, TypeOK, Lifecycle!RunStatus, Lifecycle!TaskStatus, Phases
<1>5. Where
  BY <1>1 DEF Where, StatusHere, StatusBefore, RowAt, TasksHere, Blank, Waiting, Turning
<1>6. QED
  BY <1>4, <1>5 DEF IInv

\* The invariant is inductive, and under it every step is one of the lifecycle.
LEMMA InvStep ==
  ASSUME IInv, [Next]_vars
  PROVE  IInv' /\ [Lifecycle!Next]_Lifecycle!lifecycle
<1>1. CASE StoreCall
  BY <1>1, CallTypes, CallStep DEF IInv
<1>2. CASE Decide \/ Asked \/ Dies
  BY <1>2, DecideStep DEF Lifecycle!lifecycle
<1>3. CASE UNCHANGED vars
  BY <1>3 DEF vars, Lifecycle!lifecycle, IInv, TypeOK, Where, StatusHere, TasksHere, StatusBefore, StatusAfter,
     Untouched, Fresh, AtTurn, CurBefore, CurAfter
<1>4. QED
  BY <1>1, <1>2, <1>3 DEF Next

\* Every reachable state is where its phase says.
LEMMA Invariance == Spec => []IInv
<1>1. IInv /\ [Next]_vars => IInv'
  BY InvStep
<1>2. QED
  BY <1>1, InvInit, PTL DEF Spec

\* The process never leaves its scripts, nor a variable its values.
THEOREM TypeCorrect == Spec => []TypeOK
BY Invariance, PTL DEF IInv

\* What the rows show is a behaviour of RunLifecycle: every decision stutters, and
\* every store call that writes a row finds the lifecycle's guard true.
THEOREM LifecycleRefinement == Spec => ImplementsLifecycle
<1>1. Init => Lifecycle!Init
  BY DEF Init, Lifecycle!Init, Tasks, Lifecycle!Tasks
<1>2. IInv /\ [Next]_vars => [Lifecycle!Next]_Lifecycle!lifecycle
  BY InvStep
<1>3. QED
  BY <1>1, <1>2, Invariance, PTL DEF Spec, ImplementsLifecycle, Lifecycle!Spec

-----------------------------------------------------------------------------
(* Consent.  Permission is settled when the run begins and never changes;  *)
(* the only script that announces an agent is behind it.                   *)

Allowed == mode = "yes" \/ consent = "yes"

Permission ==
  /\ phase \in {"prompt", "won", "lost", "threw", "fail"} => Allowed
  /\ phase \in {"begin", "turn", "assign", "skip", "complete"} => Allowed \/ mode = "dry"
  /\ consent # "none" => mode = "ask" /\ phase \notin {"create", "scan", "planfail", "graph", "route", "plan",
                                                       "announce"}

\* What a store call appends to the events.
LEMMA CallEvents ==
  ASSUME TypeOK, StoreCall
  PROVE  /\ k \in 1..Steps(phase) /\ Call = Script(phase, cur)[k]
         /\ \/ UNCHANGED events
            \/ events' = Append(events, <<Call[2], Call[3]>>)
BY ScriptCalls DEF TypeOK, StoreCall, InScript, Call, WriteEvent, SetRunStatus, SetTaskStatus, PutArtifact,
                   InsertTasks

\* An event recorded after a store call was recorded before or is the call's.
LEMMA RecordedStep ==
  ASSUME TypeOK, StoreCall, NEW type, NEW t, Recorded(type, t)'
  PROVE  Recorded(type, t) \/ Call[2] = type
<1>1. CASE UNCHANGED events
  BY <1>1 DEF Recorded
<1>2. CASE events' = Append(events, <<Call[2], Call[3]>>)
  <2>1. PICK i \in 1..Len(events') : events'[i] = <<type, t>>
    BY DEF Recorded
  <2>2. CASE i \in 1..Len(events)
    BY <1>2, <2>1, <2>2 DEF Recorded, TypeOK
  <2>3. CASE i = Len(events) + 1
    BY <1>2, <2>1, <2>3 DEF TypeOK
  <2>4. QED
    BY <1>2, <2>1, <2>2, <2>3 DEF TypeOK
<1>3. QED
  BY <1>1, <1>2, CallEvents

\* A decision changes nothing in the store.
LEMMA DecisionStore ==
  ASSUME Decide \/ Asked \/ Dies
  PROVE  UNCHANGED <<mode, store>>
BY DEF Decide, Asked, Answer, Dies, Exit, Goto, From, ForEachTask, ConfigRaises, ConfigLoads, PlannerFails,
       PlannerRaises, PlannerPlans, GraphStored, RouteNext, PlanStored, AnnounceNext, PlanReturns, Unattended,
       ConfirmationRequired, Declined, NotAsked, NoAgents, RunBegins, BeforeTurnRaises, BeforeTurn, DryRun,
       Prompts, AgentReturns, NextTask, StopAtFailure, AfterRun, AfterRunRaises

\* Permission is inductive, and carries the consent of every agent started.
LEMMA PermissionStep ==
  ASSUME TypeOK, Permission, ConsentBeforeAgents, [Next]_vars
  PROVE  Permission' /\ ConsentBeforeAgents'
<1>1. CASE StoreCall
  <2>1. UNCHANGED <<mode, consent, phase>>
    BY <1>1 DEF StoreCall
  <2>2. Permission'
    BY <2>1 DEF Permission, Allowed
  <2>3. ASSUME NEW t \in Tasks, Recorded("agent.started", t)'
        PROVE  Allowed
    <3>1. CASE Recorded("agent.started", t)
      BY <2>3, <3>1 DEF ConsentBeforeAgents, Allowed
    <3>2. CASE Call[2] = "agent.started"
      BY <1>1, <3>2, CallEvents, ScriptCalls DEF Permission, TypeOK
    <3>3. QED
      BY <1>1, <2>3, <3>1, <3>2, RecordedStep
  <2>4. QED
    BY <2>1, <2>2, <2>3 DEF ConsentBeforeAgents, Allowed
<1>2. CASE Decide \/ Asked \/ Dies
  <2>1. UNCHANGED <<mode, events>>
    BY <1>2, DecisionStore DEF store
  <2>2. Permission' /\ (Allowed => Allowed')
    BY <1>2 DEF Permission, Allowed, At, TypeOK, Decide, Asked, Answer, Dies, Exit, Goto, From, ForEachTask, store,
       ConfigRaises, ConfigLoads, PlannerFails, PlannerRaises, PlannerPlans, GraphStored, RouteNext, PlanStored, AnnounceNext, PlanReturns, Unattended,
       ConfirmationRequired, Declined, NotAsked, NoAgents, RunBegins, BeforeTurnRaises, BeforeTurn, DryRun, Prompts,
       AgentReturns, NextTask, StopAtFailure, RunOver, AfterRun, AfterRunRaises
  <2>3. QED
    BY <2>1, <2>2 DEF ConsentBeforeAgents, Allowed, Recorded
<1>3. CASE UNCHANGED vars
  BY <1>3 DEF vars, Permission, Allowed, ConsentBeforeAgents, Recorded
<1>4. QED
  BY <1>1, <1>2, <1>3 DEF Next

\* No agent starts without --yes or the user's yes.
THEOREM ConsentFirst == Spec => []ConsentBeforeAgents
<1>1. Init => Permission /\ ConsentBeforeAgents
  BY DEF Init, Permission, ConsentBeforeAgents, Recorded
<1>2. TypeOK /\ Permission /\ ConsentBeforeAgents /\ [Next]_vars => Permission' /\ ConsentBeforeAgents'
  BY PermissionStep
<1>3. QED
  BY <1>1, <1>2, TypeCorrect, PTL DEF Spec

-----------------------------------------------------------------------------
(* Once its terminal event is recorded, a run is not written again.        *)

AtEnd == Concluded => phase \in Ending /\ k = Steps(phase) + 1

\* Every decision at the end of such a script ends the process.
LEMMA EndingStays ==
  ASSUME TypeOK, phase \in Ending, Decide \/ Asked \/ Dies
  PROVE  UNCHANGED <<phase, k>>
BY DEF Ending, At, Decide, Asked, Answer, Dies, Exit, Goto, From, ForEachTask, ConfigRaises, ConfigLoads,
       PlannerFails, PlannerRaises, PlannerPlans, GraphStored, RouteNext, PlanStored, AnnounceNext, PlanReturns,
       Unattended, ConfirmationRequired, Declined, NotAsked, NoAgents, RunBegins, BeforeTurnRaises, BeforeTurn,
       DryRun, Prompts, AgentReturns, NextTask, StopAtFailure, RunOver, AfterRun, AfterRunRaises

\* The terminal event is at the end of its script, and no script follows.
LEMMA EndStep ==
  ASSUME TypeOK, AtEnd, [Next]_vars
  PROVE  AtEnd' /\ (Concluded => UNCHANGED store)
<1>1. CASE StoreCall
  <2>1. k \in 1..Steps(phase) /\ Steps(phase) \in Nat
    BY <1>1, CallEvents DEF TypeOK, Phases, Steps
  <2>2. ~Concluded
    BY <2>1 DEF AtEnd
  <2>3. ASSUME Concluded'
        PROVE  phase \in Ending /\ k = Steps(phase)
    <3>1. PICK type \in Terminal : Recorded(type, 0)'
      BY <2>3 DEF Concluded, Terminal
    <3>2. ~Recorded(type, 0)
      BY <2>2, <3>1 DEF Concluded, Terminal
    <3>3. Call[2] = type
      BY <1>1, <3>1, <3>2, RecordedStep
    <3>4. QED
      BY <1>1, <3>1, <3>3, CallEvents, ScriptCalls DEF TypeOK
  <2>4. phase' = phase /\ k' = k + 1
    BY <1>1 DEF StoreCall
  <2>5. QED
    BY <2>2, <2>3, <2>4 DEF AtEnd, Steps
<1>2. CASE Decide \/ Asked \/ Dies
  <2>1. UNCHANGED store /\ (Concluded' <=> Concluded)
    BY <1>2, DecisionStore DEF store, Concluded, Recorded
  <2>2. QED
    BY <1>2, <2>1, EndingStays DEF AtEnd, Steps
<1>3. CASE UNCHANGED vars
  BY <1>3 DEF vars, store, AtEnd, Concluded, Recorded, Steps
<1>4. QED
  BY <1>1, <1>2, <1>3 DEF Next

\* The terminal event is the last write of a run's command.
THEOREM NothingAfterTheEnd == Spec => TerminalEventIsLast
<1>1. Init => AtEnd
  BY DEF Init, AtEnd, Concluded, Recorded
<1>2. TypeOK /\ AtEnd /\ [Next]_vars => AtEnd'
  BY EndStep
<1>3. TypeOK /\ AtEnd /\ [Next]_vars => [Concluded => UNCHANGED store]_vars
  BY EndStep
<1>4. QED
  BY <1>1, <1>2, <1>3, TypeCorrect, PTL DEF Spec, TerminalEventIsLast

-----------------------------------------------------------------------------
(* What RunLifecycle promises.  Its four invariants are inductive together:*)
(* a run that fails has no task under way because, by InOrder, a failed    *)
(* task and an assigned one cannot both be there; and InOrder survives a   *)
(* failure because nothing after the failed task was started.              *)

LifecycleInv == Lifecycle!TypeOK /\ Lifecycle!InOrder /\ Lifecycle!OutcomeSound /\ Lifecycle!QuietOutside

\* The invariants hold before the run is created.
LEMMA LifecycleInit == Lifecycle!Init => LifecycleInv
BY DEF Lifecycle!Init, LifecycleInv, Lifecycle!TypeOK, Lifecycle!InOrder, Lifecycle!OutcomeSound,
       Lifecycle!QuietOutside, Lifecycle!Tasks, Lifecycle!RunStatus, Lifecycle!TaskStatus, Lifecycle!DoneTask,
       Lifecycle!EndedRun

\* A run that moves with all tasks at rest keeps them in order.
LEMMA LifecycleMoves ==
  ASSUME LifecycleInv,
         \/ Lifecycle!Move("absent", "created") \/ Lifecycle!Planned \/ Lifecycle!NoPlan
         \/ Lifecycle!Move("planned", "awaiting_confirmation") \/ Lifecycle!Move("planned", "cancelled")
         \/ Lifecycle!Move("planned", "running")
  PROVE  LifecycleInv'
BY DEF LifecycleInv, Lifecycle!Move, Lifecycle!Planned, Lifecycle!NoPlan, Lifecycle!TypeOK, Lifecycle!InOrder,
       Lifecycle!OutcomeSound, Lifecycle!QuietOutside, Lifecycle!Tasks, Lifecycle!RunStatus, Lifecycle!TaskStatus,
       Lifecycle!DoneTask, Lifecycle!EndedRun

\* The end of a run finds no task assigned.
LEMMA LifecycleEnds ==
  ASSUME LifecycleInv, Lifecycle!Completes \/ Lifecycle!Fails
  PROVE  LifecycleInv'
<1>. USE DEF LifecycleInv, Lifecycle!InOrder, Lifecycle!DoneTask
<1>1. status = "running" /\ task' = task /\ status' \in {"completed", "failed"}
  BY DEF Lifecycle!Completes, Lifecycle!Fails, Lifecycle!Move
<1>2. Lifecycle!TypeOK' /\ Lifecycle!InOrder'
  BY <1>1 DEF Lifecycle!TypeOK, Lifecycle!RunStatus
<1>3. Lifecycle!OutcomeSound'
  BY <1>1 DEF Lifecycle!Completes, Lifecycle!Fails, Lifecycle!Move, Lifecycle!OutcomeSound
<1>4. ASSUME NEW t \in Lifecycle!Tasks
      PROVE  task[t] # "assigned"
  <2>1. CASE Lifecycle!Completes
    BY <2>1 DEF Lifecycle!Completes
  <2>2. CASE Lifecycle!Fails
    <3>1. PICK f \in Lifecycle!Tasks : task[f] = "failed"
      BY <2>2 DEF Lifecycle!Fails
    <3>2. SUFFICES ASSUME task[t] = "assigned" PROVE FALSE
      OBVIOUS
    <3>3. t # f /\ ~(t < f) /\ ~(f < t)
      BY <3>1, <3>2
    <3>4. QED
      BY <3>3 DEF Lifecycle!Tasks
  <2>3. QED
    BY <2>1, <2>2
<1>5. Lifecycle!QuietOutside'
  BY <1>1, <1>4 DEF Lifecycle!QuietOutside
<1>6. QED
  BY <1>2, <1>3, <1>5

\* Tasks move one at a time and in order.
LEMMA LifecycleTasks ==
  ASSUME LifecycleInv, NEW t \in Lifecycle!Tasks, Lifecycle!Plan(t) \/ Lifecycle!Assign(t) \/ Lifecycle!Settle(t)
  PROVE  LifecycleInv'
<1>. USE DEF LifecycleInv, Lifecycle!TypeOK, Lifecycle!OutcomeSound, Lifecycle!QuietOutside, Lifecycle!RunStatus,
       Lifecycle!TaskStatus, Lifecycle!DoneTask, Lifecycle!EndedRun
<1>1. CASE Lifecycle!Plan(t)
  BY <1>1 DEF Lifecycle!Plan, Lifecycle!InOrder
<1>2. CASE Lifecycle!Assign(t) \/ Lifecycle!Settle(t)
  <2>1. Lifecycle!TypeOK' /\ Lifecycle!OutcomeSound' /\ Lifecycle!QuietOutside'
    BY <1>2 DEF Lifecycle!Assign, Lifecycle!Settle
  <2>2. Lifecycle!InOrder'
    BY <1>2 DEF Lifecycle!Assign, Lifecycle!Settle, Lifecycle!InOrder, Lifecycle!Tasks
  <2>3. QED
    BY <2>1, <2>2
<1>3. QED
  BY <1>1, <1>2

\* Tasks are done in order and none is started after a failure; the run's outcome
\* is the outcome of its tasks; nothing moves before it runs or after it ended.
THEOREM LifecycleSound == Lifecycle!Spec => []LifecycleInv
<1>1. LifecycleInv /\ [Lifecycle!Next]_Lifecycle!lifecycle => LifecycleInv'
  <2>1. SUFFICES ASSUME LifecycleInv, [Lifecycle!Next]_Lifecycle!lifecycle PROVE LifecycleInv'
    OBVIOUS
  <2>2. CASE UNCHANGED Lifecycle!lifecycle
    BY <2>1, <2>2 DEF Lifecycle!lifecycle, LifecycleInv, Lifecycle!TypeOK, Lifecycle!InOrder,
       Lifecycle!OutcomeSound, Lifecycle!QuietOutside
  <2>3. QED
    BY <2>1, <2>2, LifecycleMoves, LifecycleEnds, LifecycleTasks DEF Lifecycle!Next
<1>2. QED
  BY <1>1, LifecycleInit, PTL DEF Lifecycle!Spec

\* What RunLifecycle promises, the rows of every run keep, because the command
\* implements it: tasks in order, an outcome that is the tasks' outcome, nothing moving
\* outside the run.
THEOREM RowsAreSound == Spec => []RowsSound
<1>1. LifecycleInv => RowsSound
  BY DEF LifecycleInv, RowsSound
<1>2. QED
  BY <1>1, LifecycleRefinement, LifecycleSound, PTL DEF ImplementsLifecycle

-----------------------------------------------------------------------------
(* The evidence.  What a task's row and the run's terminal event rest on   *)
(* is put by earlier calls of their scripts, or by an earlier script.      *)

Settling == {"won", "lost", "threw"}
Evidence == {"context.packet", "agent.input", "agent.result", "worker.patch", "handoff.packet"}

\* The process is past the call that puts this evidence of the task at hand.
Behind(kind) ==
  \/ kind = "context.packet" /\ (phase \in {"skip", "prompt", "won", "lost", "threw"} \/ (phase = "assign" /\ k > 1))
  \/ kind = "agent.input"    /\ (phase \in Settling \/ (phase = "prompt" /\ k > 1))
  \/ kind = "agent.result"   /\ phase \in Settling /\ k > 1
  \/ kind = "worker.patch"   /\ phase \in Settling /\ k > 3
  \/ kind = "handoff.packet" /\ phase \in Settling /\ k > 6

\* The calls that put evidence and verdicts, and those that end a run.
LEMMA EvidenceCalls ==
  ASSUME NEW t \in Tasks
  PROVE  /\ Script("assign", t)[1] = <<"put", "context.packet", t>>
         /\ Script("prompt", t)[1] = <<"put", "agent.input", t>>
         /\ \A ph \in Settling : /\ Script(ph, t)[1] = <<"put", "agent.result", t>>
                                 /\ Script(ph, t)[3] = <<"put", "worker.patch", t>>
                                 /\ Script(ph, t)[6] = <<"put", "handoff.packet", t>>
         /\ Script("complete", t)[2] = <<"put", "review.accepted", 0>>
         /\ Script("complete", t)[3] = <<"put", "verify.pass", 0>>
         /\ Script("complete", t)[4] = <<"event", "run.completed", 0>>
         /\ Script("fail", t)[2]     = <<"put", "review.rejected", 0>>
         /\ Script("fail", t)[3]     = <<"put", "verify.fail", 0>>
         /\ Script("fail", t)[4]     = <<"event", "run.failed", 0>>
         /\ Script("planfail", t)[1] = <<"put", "planner.error", 0>>
         /\ Script("planfail", t)[4] = <<"event", "run.failed", 0>>
         /\ Script("cancel", t)[2]   = <<"event", "run.cancelled", 0>>
<1>. USE DEF Ev, TaskEv, Status, TaskStatus, Put, TaskPut, Settled, Verdict
<1>1. /\ Script("assign", t)[1] = <<"put", "context.packet", t>>
      /\ Script("prompt", t)[1] = <<"put", "agent.input", t>>
  BY DEF Script
<1>2. ASSUME NEW ph \in Settling
      PROVE  /\ Script(ph, t)[1] = <<"put", "agent.result", t>>
             /\ Script(ph, t)[3] = <<"put", "worker.patch", t>>
             /\ Script(ph, t)[6] = <<"put", "handoff.packet", t>>
  <2>1. CASE ph = "won"
    BY <2>1 DEF Script
  <2>2. CASE ph = "lost"
    BY <2>2 DEF Script
  <2>3. CASE ph = "threw"
    BY <2>3 DEF Script
  <2>4. QED
    BY <2>1, <2>2, <2>3 DEF Settling
<1>3. /\ Script("complete", t)[2] = <<"put", "review.accepted", 0>>
      /\ Script("complete", t)[3] = <<"put", "verify.pass", 0>>
      /\ Script("complete", t)[4] = <<"event", "run.completed", 0>>
  BY DEF Script
<1>4. /\ Script("fail", t)[2] = <<"put", "review.rejected", 0>>
      /\ Script("fail", t)[3] = <<"put", "verify.fail", 0>>
      /\ Script("fail", t)[4] = <<"event", "run.failed", 0>>
  BY DEF Script
<1>5. /\ Script("planfail", t)[1] = <<"put", "planner.error", 0>>
      /\ Script("planfail", t)[4] = <<"event", "run.failed", 0>>
      /\ Script("cancel", t)[2] = <<"event", "run.cancelled", 0>>
  BY DEF Script
<1>6. QED
  BY <1>1, <1>2, <1>3, <1>4, <1>5

\* Which script an end is recorded by.
EndOf(ph) ==
  CASE ph = "complete" -> "run.completed"
    [] ph = "cancel"   -> "run.cancelled"
    [] OTHER           -> "run.failed"

\* A process that is past the call has put the evidence; a settled task has all of
\* it; a verdict's event comes after the verdict, and at the end of its script.
Backed ==
  /\ \A kind \in Evidence : Behind(kind) => <<kind, cur>> \in artifacts
  /\ phase = "complete" => /\ k > 2 => <<"review.accepted", 0>> \in artifacts
                           /\ k > 3 => <<"verify.pass", 0>> \in artifacts
  /\ phase = "fail" => /\ k > 2 => <<"review.rejected", 0>> \in artifacts
                       /\ k > 3 => <<"verify.fail", 0>> \in artifacts
  /\ phase = "planfail" /\ k > 1 => <<"planner.error", 0>> \in artifacts
  /\ phase \in Ending /\ k > Steps(phase) => Recorded(EndOf(phase), 0)

\* What a store call leaves of artifacts and events.
LEMMA CallWrites ==
  ASSUME TypeOK, StoreCall
  PROVE  /\ artifacts \subseteq artifacts'
         /\ Call[1] = "put" => <<Call[2], Call[3]>> \in artifacts'
         /\ \A type, t : Recorded(type, t) => Recorded(type, t)'
         /\ \A type, t : Call = <<"event", type, t>> => Recorded(type, t)'
<1>1. artifacts \subseteq artifacts' /\ (Call[1] = "put" => <<Call[2], Call[3]>> \in artifacts')
  BY DEF StoreCall, WriteEvent, SetRunStatus, SetTaskStatus, PutArtifact, InsertTasks
<1>2. UNCHANGED events \/ events' = Append(events, <<Call[2], Call[3]>>)
  BY CallEvents
<1>3. ASSUME NEW type, NEW t, Recorded(type, t) PROVE Recorded(type, t)'
  <2>1. PICK i \in 1..Len(events) : events[i] = <<type, t>>
    BY <1>3 DEF Recorded
  <2>2. events \in Seq(EventType \X Ordinals) /\ Len(events) \in Nat
    BY DEF TypeOK
  <2>3. i \in 1..Len(events') /\ events'[i] = events[i]
    BY <1>2, <2>2
  <2>4. QED
    BY <2>1, <2>3 DEF Recorded
<1>4. ASSUME NEW type, NEW t, Call = <<"event", type, t>> PROVE Recorded(type, t)'
  <2>1. events' = Append(events, <<type, t>>) /\ events \in Seq(EventType \X Ordinals)
    BY <1>4 DEF StoreCall, WriteEvent, SetRunStatus, SetTaskStatus, PutArtifact, InsertTasks, TypeOK
  <2>2. Len(events') = Len(events) + 1 /\ Len(events) \in Nat /\ events'[Len(events) + 1] = <<type, t>>
    BY <2>1
  <2>3. Len(events') \in 1..Len(events') /\ events'[Len(events')] = <<type, t>>
    BY <2>2
  <2>4. QED
    BY <2>3 DEF Recorded
<1>5. QED
  BY <1>1, <1>3, <1>4

\* The decisions of the planner and of the loops around the plan.
LoopPhases ==
  {<<"scan", "graph">>, <<"scan", "route">>, <<"route", "route">>, <<"route", "plan">>,
   <<"announce", "announce">>, <<"announce", "ready">>}

\* Where decisions lead.
LEMMA DecisionMoves ==
  ASSUME TypeOK, Decide \/ Asked \/ Dies
  PROVE  \/ UNCHANGED <<phase, k, cur>>
         \/ /\ k' = 1 /\ cur' = cur /\ k = Steps(phase) + 1
            /\ <<phase, phase'>> \in FromPhases
         \/ k' = 1 /\ k = Steps(phase) + 1 /\ <<phase, phase'>> \in LoopPhases
         \/ /\ k' = 1 /\ k = Steps(phase) + 1 /\ phase \in {"won", "skip"}
            /\ (phase' = "turn" /\ cur' = cur + 1) \/ (phase' = "complete" /\ cur' = cur)
<1>1. CASE Dies \/ ConfigRaises \/ PlannerRaises \/ PlanReturns \/ ConfirmationRequired \/ Declined \/ NoAgents
           \/ BeforeTurnRaises \/ AfterRun \/ AfterRunRaises
  BY <1>1 DEF Dies, Exit, ConfigRaises, PlannerRaises, PlanReturns, ConfirmationRequired, Declined, NoAgents,
     BeforeTurnRaises, AfterRun, AfterRunRaises
<1>2. CASE ConfigLoads \/ PlannerFails \/ GraphStored \/ PlanStored \/ Unattended \/ NotAsked \/ RunBegins
           \/ BeforeTurn \/ DryRun \/ Prompts \/ AgentReturns \/ StopAtFailure
  <2>1. PICK a \in Phases, b \in Phases : <<a, b>> \in FromPhases /\ From(a, b)
    BY <1>2 DEF ConfigLoads, PlannerFails, GraphStored, PlanStored, Unattended, NotAsked, RunBegins, BeforeTurn,
       DryRun, Prompts, AgentReturns, StopAtFailure, FromPhases, Phases
  <2>2. QED
    BY <2>1, ScriptEnd DEF From, Goto
<1>3. CASE RouteNext \/ AnnounceNext \/ PlannerPlans \/ NextTask
  <2>1. PICK a \in {"route", "announce", "scan", "won", "skip"}, b \in Phases :
          /\ At(a) /\ Goto(b)
          /\ \/ <<a, b>> \in LoopPhases
             \/ /\ a \in {"won", "skip"}
                /\ (b = "turn" /\ cur' = cur + 1) \/ (b = "complete" /\ cur' = cur)
    BY <1>3 DEF RouteNext, AnnounceNext, ForEachTask, PlannerPlans, NextTask, LoopPhases, Phases
  <2>2. phase = a /\ k = Steps(a) + 1
    BY <2>1, ScriptEnd DEF Phases
  <2>3. QED
    BY <2>1, <2>2 DEF Goto
<1>4. CASE Asked
  <2>1. PICK b \in {"begin", "cancel"} : At("ready") /\ Goto(b) /\ UNCHANGED cur
    BY <1>4 DEF Asked, Answer
  <2>2. phase = "ready" /\ k = Steps("ready") + 1
    BY <2>1, ScriptEnd DEF Phases
  <2>3. QED
    BY <2>1, <2>2 DEF Goto, FromPhases
<1>5. QED
  BY <1>1, <1>2, <1>3, <1>4 DEF Decide

LEMMA BackedStep ==
  ASSUME TypeOK, Backed, EvidenceBeforeOutcome, [Next]_vars
  PROVE  Backed' /\ EvidenceBeforeOutcome'
<1>1. CASE StoreCall
  <2>1. /\ k \in 1..Steps(phase) /\ Steps(phase) \in Nat /\ k \in Nat /\ Call = Script(phase, cur)[k]
        /\ cur \in Tasks /\ phase \in Phases
        /\ k' = k + 1 /\ UNCHANGED <<phase, cur>>
    BY <1>1, CallEvents DEF TypeOK, StoreCall, Phases, Steps
  <2>2. /\ artifacts \subseteq artifacts'
        /\ Call[1] = "put" => <<Call[2], Call[3]>> \in artifacts'
        /\ \A type, t : Recorded(type, t) => Recorded(type, t)'
        /\ \A type, t : Call = <<"event", type, t>> => Recorded(type, t)'
    BY <1>1, CallWrites
  <2>3. ASSUME NEW kind \in Evidence, Behind(kind)' PROVE <<kind, cur>> \in artifacts'
    <3>1. CASE Behind(kind)
      BY <2>2, <3>1 DEF Backed
    <3>2. CASE ~Behind(kind)
      <4>1. \/ kind = "context.packet" /\ phase = "assign" /\ k = 1
            \/ kind = "agent.input" /\ phase = "prompt" /\ k = 1
            \/ kind = "agent.result" /\ phase \in Settling /\ k = 1
            \/ kind = "worker.patch" /\ phase \in Settling /\ k = 3
            \/ kind = "handoff.packet" /\ phase \in Settling /\ k = 6
        <5>1. k \in Nat /\ k' = k + 1 /\ phase' = phase
          BY <2>1
        <5>2. QED
          BY <2>3, <3>2, <5>1 DEF Behind, Settling
      <4>2. Call = <<"put", kind, cur>>
        BY <2>1, <4>1, EvidenceCalls
      <4>3. QED
        BY <2>2, <4>2
    <3>3. QED
      BY <3>1, <3>2
  <2>4. /\ phase = "complete" => /\ k' > 2 => <<"review.accepted", 0>> \in artifacts'
                                 /\ k' > 3 => <<"verify.pass", 0>> \in artifacts'
        /\ phase = "fail" => /\ k' > 2 => <<"review.rejected", 0>> \in artifacts'
                             /\ k' > 3 => <<"verify.fail", 0>> \in artifacts'
        /\ phase = "planfail" /\ k' > 1 => <<"planner.error", 0>> \in artifacts'
    <3>1. /\ phase = "complete" => /\ k = 2 => Call = <<"put", "review.accepted", 0>>
                                   /\ k = 3 => Call = <<"put", "verify.pass", 0>>
          /\ phase = "fail" => /\ k = 2 => Call = <<"put", "review.rejected", 0>>
                               /\ k = 3 => Call = <<"put", "verify.fail", 0>>
          /\ phase = "planfail" /\ k = 1 => Call = <<"put", "planner.error", 0>>
      BY <2>1, EvidenceCalls
    <3>2. /\ k' > 2 => k > 2 \/ k = 2
          /\ k' > 3 => k > 3 \/ k = 3
          /\ k' > 1 => k > 1 \/ k = 1
      BY <2>1
    <3>3. QED
      BY <2>2, <3>1, <3>2 DEF Backed
  <2>5. ASSUME phase \in Ending, k' > Steps(phase) PROVE Recorded(EndOf(phase), 0)'
    <3>1. k = Steps(phase)
      BY <2>1, <2>5
    <3>2. Call = <<"event", EndOf(phase), 0>>
      BY <2>1, <2>5, <3>1, EvidenceCalls DEF Ending, EndOf, Steps
    <3>3. PICK type : type = EndOf(phase)
      OBVIOUS
    <3>4. Recorded(type, 0)'
      BY <2>2, <3>2, <3>3
    <3>5. EndOf(phase') = type
      BY <2>1, <3>3 DEF EndOf
    <3>6. QED
      BY <3>4, <3>5
  <2>6. Backed'
    BY <2>1, <2>3, <2>4, <2>5 DEF Backed, EndOf, Steps
  <2>7. ASSUME NEW t \in Tasks, task'[t] \in {"completed", "failed"}, NEW kind \in Evidence
        PROVE  <<kind, t>> \in artifacts'
    <3>1. CASE task'[t] = task[t]
      BY <2>2, <2>7, <3>1 DEF EvidenceBeforeOutcome, Evidence
    <3>2. CASE task'[t] # task[t]
      <4>1. k = RowAt(phase)
        BY <1>1, <3>2, CallEffect
      <4>2. CASE phase \in Settling
        <5>1. k = 7 /\ Call[1] = "task" /\ Call[3] = cur
          BY <2>1, <4>1, <4>2, RowCalls DEF Settling, RowAt
        <5>2. task' = [task EXCEPT ![cur] = Call[2]]
          BY <1>1, <5>1, CallEffect
        <5>3. t = cur
          BY <3>2, <5>2 DEF TypeOK
        <5>4. Behind(kind)
          BY <4>2, <5>1 DEF Behind, Evidence, Settling
        <5>5. QED
          BY <2>2, <5>3, <5>4 DEF Backed
      <4>3. CASE phase \in {"assign", "skip"}
        <5>1. Call[1] = "task" /\ Call[3] = cur /\ Call[2] \in {"assigned", "skipped"}
          BY <2>1, <4>1, <4>3, RowCalls DEF RowAt
        <5>2. task' = [task EXCEPT ![cur] = Call[2]]
          BY <1>1, <5>1, CallEffect
        <5>3. task'[t] \in {"assigned", "skipped"}
          BY <2>1, <3>2, <5>1, <5>2 DEF TypeOK
        <5>4. QED
          BY <2>7, <5>3
      <4>4. CASE phase = "plan"
        <5>1. Call[1] = "insert"
          BY <2>1, <4>1, <4>4, RowCalls DEF RowAt
        <5>2. task'[t] \in {"pending", "none"}
          BY <1>1, <5>1, CallEffect
        <5>3. QED
          BY <2>7, <5>2
      <4>5. CASE phase \in {"create", "ready", "await", "cancel", "begin", "planfail", "complete", "fail"}
        <5>1. Call[1] = "status"
          BY <2>1, <4>1, <4>5, RowCalls DEF RowAt
        <5>2. QED
          BY <1>1, <3>2, <5>1, CallEffect
      <4>6. QED
        BY <2>1, <4>1, <4>2, <4>3, <4>4, <4>5 DEF RowAt, Phases, Settling
    <3>3. QED
      BY <3>1, <3>2
  <2>8. ASSUME NEW type \in {"run.completed", "run.failed"}, Recorded(type, 0)', ~Recorded(type, 0)
        PROVE  phase \in Ending /\ k = Steps(phase) /\ EndOf(phase) = type
    <3>1. Call[2] = type
      BY <1>1, <2>8, RecordedStep
    <3>2. phase \in Ending /\ k = Steps(phase)
      BY <2>1, <2>8, <3>1, ScriptCalls DEF Terminal
    <3>3. Call[2] = EndOf(phase)
      BY <2>1, <3>2, EvidenceCalls DEF Ending, EndOf, Steps
    <3>4. QED
      BY <3>1, <3>2, <3>3
  <2>9. Recorded("run.completed", 0)' => {<<"review.accepted", 0>>, <<"verify.pass", 0>>} \subseteq artifacts'
    <3>1. CASE Recorded("run.completed", 0)
      BY <2>2, <3>1 DEF EvidenceBeforeOutcome
    <3>2. CASE Recorded("run.completed", 0)' /\ ~Recorded("run.completed", 0)
      <4>1. phase = "complete" /\ k = 4
        BY <2>8, <3>2 DEF EndOf, Ending, Steps
      <4>2. QED
        BY <2>2, <4>1 DEF Backed
    <3>3. QED
      BY <3>1, <3>2
  <2>10. Recorded("run.failed", 0)' =>
           \/ {<<"review.rejected", 0>>, <<"verify.fail", 0>>} \subseteq artifacts'
           \/ <<"planner.error", 0>> \in artifacts'
    <3>1. CASE Recorded("run.failed", 0)
      BY <2>2, <3>1 DEF EvidenceBeforeOutcome
    <3>2. CASE Recorded("run.failed", 0)' /\ ~Recorded("run.failed", 0)
      <4>1. phase \in {"fail", "planfail"} /\ k = 4
        BY <2>8, <3>2 DEF EndOf, Ending, Steps
      <4>2. QED
        BY <2>2, <4>1 DEF Backed
    <3>3. QED
      BY <3>1, <3>2
  <2>11. EvidenceBeforeOutcome'
    BY <2>7, <2>9, <2>10 DEF EvidenceBeforeOutcome, Evidence
  <2>12. QED
    BY <2>6, <2>11
<1>2. CASE Decide \/ Asked \/ Dies
  <2>1. UNCHANGED <<task, artifacts, events>>
    BY <1>2, DecisionStore DEF store
  <2>2. EvidenceBeforeOutcome'
    BY <2>1 DEF EvidenceBeforeOutcome, Recorded
  <2>3. CASE UNCHANGED <<phase, k, cur>>
    BY <2>1, <2>2, <2>3 DEF Backed, Behind, EndOf, Steps, Recorded
  <2>4. CASE k' = 1 /\ cur' = cur /\ k = Steps(phase) + 1 /\ <<phase, phase'>> \in FromPhases
    <3>1. \A kind \in Evidence : Behind(kind)' => Behind(kind)
      BY <2>4 DEF Behind, Evidence, FromPhases, Settling, Steps
    <3>2. ~(phase' \in Ending /\ k' > Steps(phase'))
      BY <2>4 DEF Ending, Steps
    <3>3. QED
      BY <2>1, <2>2, <2>4, <3>1, <3>2 DEF Backed
  <2>5. CASE k' = 1 /\ phase' \in {"graph", "route", "plan", "announce", "ready", "turn", "complete"}
    <3>1. \A kind \in Evidence : ~Behind(kind)'
      BY <2>5 DEF Behind, Evidence, Settling
    <3>2. ~(phase' \in Ending /\ k' > Steps(phase'))
      BY <2>5 DEF Ending, Steps
    <3>3. QED
      BY <2>2, <2>5, <3>1, <3>2 DEF Backed
  <2>6. QED
    BY <1>2, <2>3, <2>4, <2>5, DecisionMoves DEF LoopPhases
<1>3. CASE UNCHANGED vars
  BY <1>3 DEF vars, Backed, Behind, EndOf, Steps, Recorded, EvidenceBeforeOutcome
<1>4. QED
  BY <1>1, <1>2, <1>3 DEF Next

\* A task's row is settled, and a run's end recorded, only when what they rest on is
\* in the store (orchestrator.py: run).
THEOREM EvidenceComesFirst == Spec => []EvidenceBeforeOutcome
<1>1. Init => Backed /\ EvidenceBeforeOutcome
  BY DEF Init, Backed, Behind, Evidence, Settling, Ending, EvidenceBeforeOutcome, Recorded
<1>2. TypeOK /\ Backed /\ EvidenceBeforeOutcome /\ [Next]_vars => Backed' /\ EvidenceBeforeOutcome'
  BY BackedStep
<1>3. QED
  BY <1>1, <1>2, TypeCorrect, PTL DEF Spec

-----------------------------------------------------------------------------
(* What a command that returns leaves.                                     *)

Refused == phase = "cancel" => consent = "no"

\* A process that ended does nothing more.
LEMMA EndedStays ==
  ASSUME ended # "no", [Next]_vars
  PROVE  UNCHANGED vars
BY DEF Next, StoreCall, At, Decide, Asked, Answer, Dies, From, ForEachTask, ConfigRaises, ConfigLoads,
       PlannerFails, PlannerRaises, PlannerPlans, GraphStored, RouteNext, PlanStored, AnnounceNext, PlanReturns,
       Unattended, ConfirmationRequired, Declined, NotAsked, NoAgents, RunBegins, BeforeTurnRaises, BeforeTurn,
       DryRun, Prompts, AgentReturns, NextTask, StopAtFailure, RunOver, AfterRun, AfterRunRaises

LEMMA RefusedStep ==
  ASSUME TypeOK, Refused, [Next]_vars
  PROVE  Refused'
<1>1. CASE Decide \/ Asked \/ Dies
  BY <1>1 DEF Refused, At, TypeOK, Decide, Asked, Answer, Dies, Exit, Goto, From, ForEachTask,
     ConfigRaises, ConfigLoads, PlannerFails, PlannerRaises, PlannerPlans, GraphStored, RouteNext, PlanStored,
     AnnounceNext, PlanReturns, Unattended, ConfirmationRequired, Declined, NotAsked, NoAgents, RunBegins,
     BeforeTurnRaises, BeforeTurn, DryRun, Prompts, AgentReturns, NextTask, StopAtFailure, RunOver, AfterRun,
     AfterRunRaises
<1>2. CASE StoreCall \/ UNCHANGED vars
  BY <1>2 DEF StoreCall, vars, Refused
<1>3. QED
  BY <1>1, <1>2 DEF Next

LEMMA ReturnStep ==
  ASSUME IInv, Permission, Backed, Refused, ReturnedRunsAreSettled, [Next]_vars
  PROVE  ReturnedRunsAreSettled'
<1>1. CASE ended # "no"
  BY <1>1, EndedStays DEF vars, ReturnedRunsAreSettled, Concluded, Recorded
<1>2. CASE ended' # "returned"
  BY <1>2 DEF ReturnedRunsAreSettled
<1>3. CASE ended = "no" /\ ended' = "returned"
  <2>1. PlanReturns \/ Declined \/ AfterRun
    BY <1>3 DEF Next, StoreCall, Decide, Asked, Answer, Dies, Exit, Goto, From, ForEachTask, vars,
       ConfigRaises, ConfigLoads, PlannerFails, PlannerRaises, PlannerPlans, GraphStored, RouteNext, PlanStored,
       AnnounceNext, PlanReturns, Unattended, ConfirmationRequired, Declined, NotAsked, NoAgents, RunBegins,
       BeforeTurnRaises, BeforeTurn, DryRun, Prompts, AgentReturns, NextTask, StopAtFailure, RunOver, AfterRun,
       AfterRunRaises
  <2>2. /\ UNCHANGED <<mode, consent, store>>
        /\ \/ mode = "plan" /\ At("ready")
           \/ At("cancel")
           \/ At("complete") \/ At("fail")
    BY <2>1 DEF PlanReturns, Declined, AfterRun, RunOver, Exit
  <2>3. Concluded' <=> Concluded
    BY <2>2 DEF store, Concluded, Recorded
  <2>4. CASE mode = "plan" /\ At("ready")
    <3>1. phase = "ready" /\ k = Steps("ready") + 1
      BY <2>4, ScriptEnd DEF IInv, Phases
    <3>2. status = "planned"
      BY <3>1 DEF IInv, Where, StatusHere, StatusAfter, RowAt, Steps
    <3>3. QED
      BY <2>2, <2>4, <3>2 DEF store, ReturnedRunsAreSettled
  <2>5. ASSUME NEW ph \in {"cancel", "complete", "fail"}, At(ph)
        PROVE  /\ phase = ph /\ Concluded
               /\ status = CASE ph = "cancel" -> "cancelled" [] ph = "complete" -> "completed" [] ph = "fail" -> "failed"
    <3>1. phase = ph /\ k = Steps(ph) + 1 /\ k \in Nat /\ Steps(ph) \in Nat
      BY <2>5, ScriptEnd DEF IInv, Phases
    <3>2. Recorded(EndOf(ph), 0)
      BY <3>1 DEF Backed, Ending
    <3>3. EndOf(ph) \in {"run.completed", "run.failed", "run.cancelled"}
      BY DEF EndOf
    <3>4. status = StatusAfter
      BY <3>1 DEF IInv, Where, StatusHere, RowAt, Steps
    <3>5. QED
      BY <3>1, <3>2, <3>3, <3>4 DEF Concluded, StatusAfter
  <2>6. CASE At("cancel")
    BY <2>2, <2>3, <2>5, <2>6 DEF store, Refused, ReturnedRunsAreSettled
  <2>7. CASE At("complete") \/ At("fail")
    <3>1. phase \in {"complete", "fail"} /\ Concluded /\ status \in {"completed", "failed"}
      BY <2>5, <2>7
    <3>2. mode \in {"dry", "yes", "ask"}
      BY <3>1 DEF Permission, Allowed
    <3>3. QED
      BY <2>2, <2>3, <3>1, <3>2 DEF store, ReturnedRunsAreSettled
  <2>8. QED
    BY <2>2, <2>4, <2>6, <2>7
<1>4. QED
  BY <1>1, <1>2, <1>3 DEF IInv, TypeOK

\* A command that returned left its run planned, cancelled by the user, or ended, in
\* its row and in its events (cli.py: _run; orchestrator.py: run).
THEOREM ReturnedIsSettled == Spec => []ReturnedRunsAreSettled
<1>1. Init => Permission /\ ConsentBeforeAgents /\ Backed /\ EvidenceBeforeOutcome /\ Refused
              /\ ReturnedRunsAreSettled
  BY DEF Init, Permission, ConsentBeforeAgents, Backed, Behind, Evidence, Settling, Ending,
         EvidenceBeforeOutcome, Recorded, Refused, ReturnedRunsAreSettled
<1>2. /\ IInv /\ Permission /\ ConsentBeforeAgents /\ Backed /\ EvidenceBeforeOutcome /\ Refused
      /\ ReturnedRunsAreSettled /\ [Next]_vars
      => /\ Permission' /\ ConsentBeforeAgents' /\ Backed' /\ EvidenceBeforeOutcome' /\ Refused'
         /\ ReturnedRunsAreSettled'
  BY PermissionStep, BackedStep, RefusedStep, ReturnStep DEF IInv
<1>3. QED
  BY <1>1, <1>2, Invariance, PTL DEF Spec

-----------------------------------------------------------------------------
(* Replay.  The last call of a script is the only one that tells replay    *)
(* anything, so where the process is tells what replay shows, too: in the  *)
(* middle of a script what it shows before that call, and after it what it *)
(* shows afterwards.  Between the row and that call replay is behind; only *)
(* "planned" it shows before the row does.                                 *)

\* What replay shows of the run, and of the task at hand.
RunTale ==
  IF phase \in Blank \cup {"plan"} /\ ~(phase \in Telling /\ k > Steps(phase)) THEN "created"
  ELSE IF phase \in {"plan", "cancel", "complete", "fail", "planfail"} /\ k > Steps(phase)
       THEN CASE phase = "plan"     -> "planned"
              [] phase = "cancel"   -> "cancelled"
              [] phase = "complete" -> "completed"
              [] OTHER              -> "failed"
       ELSE "planned"

CurTale ==
  CASE phase = "turn"   -> "pending"
    [] phase = "assign" -> IF k <= 4 THEN "pending" ELSE "assigned"
    [] phase = "skip"   -> IF k <= 2 THEN "assigned" ELSE "skipped"
    [] phase = "prompt" -> "assigned"
    [] phase = "won"    -> IF k <= 9 THEN "assigned" ELSE "completed"
    [] phase \in {"lost", "threw"} -> IF k <= 9 THEN "assigned" ELSE "failed"
    [] OTHER -> task[cur]

TaskTale(t) ==
  IF phase \notin Turning \/ cur < t THEN "pending" ELSE IF t < cur THEN task[t] ELSE CurTale

\* The events that tell something have a last one.
HasLast(S) == S = {} \/ \E i \in S : \A j \in S : i >= j

Tale ==
  /\ HasLast(TellsRun) /\ ReplayedStatus = RunTale
  /\ \A t \in Tasks : HasLast(TellsTask(t)) /\ ReplayedTask(t) = TaskTale(t)
  /\ ended = "returned" => phase \in {"ready", "cancel", "complete", "fail"} /\ k = Steps(phase) + 1

\* The last of the numbers that are in a set.
LEMMA MaxIs ==
  ASSUME NEW S \in SUBSET Nat, NEW m \in S, \A j \in S : m >= j
  PROVE  Max(S) = m
<1>1. \A x \in S : (\A y \in S : x >= y) => x = m
  OBVIOUS
<1>2. QED
  BY <1>1 DEF Max

\* An event that tells the run's status is the last that does; another changes nothing.
LEMMA RunToldStep ==
  ASSUME TypeOK, HasLast(TellsRun), NEW e \in EventType \X Ordinals, events' = Append(events, e)
  PROVE  /\ HasLast(TellsRun)'
         /\ e[1] \in DOMAIN RunTold => ReplayedStatus' = RunTold[e[1]]
         /\ e[1] \notin DOMAIN RunTold => ReplayedStatus' = ReplayedStatus
<1>1. /\ DOMAIN events = 1..Len(events) /\ DOMAIN events' = 1..(Len(events) + 1) /\ Len(events) \in Nat
      /\ \A i \in DOMAIN events : events'[i] = events[i]
      /\ events'[Len(events) + 1] = e
  BY DEF TypeOK
<1>2. CASE e[1] \in DOMAIN RunTold
  <2>1. TellsRun' = TellsRun \cup {Len(events) + 1}
    BY <1>1, <1>2 DEF TellsRun, RunTold
  <2>2. TellsRun' \in SUBSET Nat /\ Len(events) + 1 \in TellsRun' /\ \A j \in TellsRun' : Len(events) + 1 >= j
    BY <1>1, <2>1 DEF TellsRun
  <2>3. Max(TellsRun') = Len(events) + 1
    BY <2>2, MaxIs
  <2>4. RunTold' = RunTold
    BY DEF RunTold
  <2>5. QED
    BY <1>1, <1>2, <2>2, <2>3, <2>4 DEF HasLast, ReplayedStatus, LastTold
<1>3. CASE e[1] \notin DOMAIN RunTold
  <2>1. TellsRun' = TellsRun
    BY <1>1, <1>3 DEF TellsRun, RunTold
  <2>2. CASE TellsRun = {}
    BY <1>3, <2>1, <2>2 DEF HasLast, ReplayedStatus, LastTold
  <2>3. CASE TellsRun # {}
    <3>1. PICK m \in TellsRun : \A j \in TellsRun : m >= j
      BY <2>3 DEF HasLast
    <3>2. Max(TellsRun) = m /\ m \in DOMAIN events
      BY <1>1, <3>1, MaxIs DEF TellsRun
    <3>3. RunTold' = RunTold
      BY DEF RunTold
    <3>4. QED
      BY <1>1, <1>3, <2>1, <2>3, <3>1, <3>2, <3>3 DEF HasLast, ReplayedStatus, LastTold
  <2>4. QED
    BY <2>2, <2>3
<1>4. QED
  BY <1>2, <1>3

\* The same for a task's status.
LEMMA TaskToldStep ==
  ASSUME TypeOK, NEW t \in Tasks, HasLast(TellsTask(t)), NEW e \in EventType \X Ordinals, events' = Append(events, e)
  PROVE  /\ HasLast(TellsTask(t))'
         /\ e[1] \in DOMAIN TaskTold /\ e[2] = t => ReplayedTask(t)' = TaskTold[e[1]]
         /\ ~(e[1] \in DOMAIN TaskTold /\ e[2] = t) => ReplayedTask(t)' = ReplayedTask(t)
<1>1. /\ DOMAIN events = 1..Len(events) /\ DOMAIN events' = 1..(Len(events) + 1) /\ Len(events) \in Nat
      /\ \A i \in DOMAIN events : events'[i] = events[i]
      /\ events'[Len(events) + 1] = e
  BY DEF TypeOK
<1>2. CASE e[1] \in DOMAIN TaskTold /\ e[2] = t
  <2>1. TellsTask(t)' = TellsTask(t) \cup {Len(events) + 1}
    BY <1>1, <1>2 DEF TellsTask, TaskTold
  <2>2. TellsTask(t)' \in SUBSET Nat /\ Len(events) + 1 \in TellsTask(t)'
        /\ \A j \in TellsTask(t)' : Len(events) + 1 >= j
    BY <1>1, <2>1 DEF TellsTask
  <2>3. Max(TellsTask(t)') = Len(events) + 1
    BY <2>2, MaxIs
  <2>4. TaskTold' = TaskTold
    BY DEF TaskTold
  <2>5. QED
    BY <1>1, <1>2, <2>2, <2>3, <2>4 DEF HasLast, ReplayedTask, LastTold
<1>3. CASE ~(e[1] \in DOMAIN TaskTold /\ e[2] = t)
  <2>1. TellsTask(t)' = TellsTask(t)
    BY <1>1, <1>3 DEF TellsTask, TaskTold
  <2>2. CASE TellsTask(t) = {}
    BY <1>3, <2>1, <2>2 DEF HasLast, ReplayedTask, LastTold
  <2>3. CASE TellsTask(t) # {}
    <3>1. PICK m \in TellsTask(t) : \A j \in TellsTask(t) : m >= j
      BY <2>3 DEF HasLast
    <3>2. Max(TellsTask(t)) = m /\ m \in DOMAIN events
      BY <1>1, <3>1, MaxIs DEF TellsTask
    <3>3. TaskTold' = TaskTold
      BY DEF TaskTold
    <3>4. QED
      BY <1>1, <1>3, <2>1, <2>3, <3>1, <3>2, <3>3 DEF HasLast, ReplayedTask, LastTold
  <2>4. QED
    BY <2>2, <2>3
<1>4. QED
  BY <1>2, <1>3

\* Events that stay tell what they told.
LEMMA EventsStay ==
  ASSUME events' = events
  PROVE  /\ (HasLast(TellsRun)' <=> HasLast(TellsRun)) /\ ReplayedStatus' = ReplayedStatus
         /\ \A t \in Tasks : (HasLast(TellsTask(t))' <=> HasLast(TellsTask(t))) /\ ReplayedTask(t)' = ReplayedTask(t)
<1>1. RunTold' = RunTold /\ TaskTold' = TaskTold
  BY DEF RunTold, TaskTold
<1>2. TellsRun' = TellsRun
  BY <1>1 DEF TellsRun
<1>3. ASSUME NEW t \in Tasks PROVE TellsTask(t)' = TellsTask(t)
  BY <1>1 DEF TellsTask
<1>4. QED
  BY <1>1, <1>2, <1>3 DEF HasLast, ReplayedStatus, ReplayedTask, LastTold

\* The calls that tell.
LEMMA TellingCalls ==
  ASSUME NEW t \in Tasks
  PROVE  /\ Script("plan", t)[7]     = <<"event", "plan.created", 0>>
         /\ Script("assign", t)[4]   = <<"event", "task.assigned", t>>
         /\ Script("skip", t)[2]     = <<"event", "task.skipped", t>>
         /\ Script("won", t)[9]      = <<"event", "task.completed", t>>
         /\ Script("lost", t)[9]     = <<"event", "task.failed", t>>
         /\ Script("threw", t)[9]    = <<"event", "task.failed", t>>
         /\ Script("complete", t)[4] = <<"event", "run.completed", 0>>
         /\ Script("fail", t)[4]     = <<"event", "run.failed", 0>>
         /\ Script("planfail", t)[4] = <<"event", "run.failed", 0>>
         /\ Script("cancel", t)[2]   = <<"event", "run.cancelled", 0>>
<1>. USE DEF Ev, TaskEv, TaskStatus, Put, TaskPut, Settled
<1>1. Script("plan", t)[7] = <<"event", "plan.created", 0>>
  BY DEF Script
<1>2. Script("assign", t)[4] = <<"event", "task.assigned", t>> /\ Script("skip", t)[2] = <<"event", "task.skipped", t>>
  BY DEF Script
<1>3. Script("won", t)[9] = <<"event", "task.completed", t>>
  BY DEF Script
<1>4. Script("lost", t)[9] = <<"event", "task.failed", t>>
  BY DEF Script
<1>5. Script("threw", t)[9] = <<"event", "task.failed", t>>
  BY DEF Script
<1>6. QED
  BY <1>1, <1>2, <1>3, <1>4, <1>5, EvidenceCalls

\* A call that tells replay nothing: neither it nor the tale moves.
LEMMA SilentStep ==
  ASSUME IInv, Tale, StoreCall, phase \notin Telling \/ k # Steps(phase)
  PROVE  Tale'
<1>1. /\ k \in 1..Steps(phase) /\ Steps(phase) \in Nat /\ Call = Script(phase, cur)[k]
      /\ cur \in Tasks /\ phase \in Phases /\ k' = k + 1 /\ UNCHANGED <<phase, cur, ended>>
  BY CallEvents DEF IInv, TypeOK, StoreCall, Phases, Steps
<1>2. Call[2] \notin Told
  BY <1>1, ScriptCalls
<1>3. Call[1] = "event" => <<Call[2], Call[3]>> \in EventType \X Ordinals
  BY <1>1, ScriptCalls DEF StoreCalls
<1>4. events' = events \/ (events' = Append(events, <<Call[2], Call[3]>>) /\ <<Call[2], Call[3]>> \in EventType \X Ordinals)
  BY <1>3 DEF StoreCall, WriteEvent, SetRunStatus, SetTaskStatus, PutArtifact, InsertTasks
<1>5. HasLast(TellsRun)' /\ ReplayedStatus' = ReplayedStatus
  <2>1. CASE events' = events
    BY <2>1, EventsStay DEF Tale
  <2>2. CASE events' = Append(events, <<Call[2], Call[3]>>) /\ <<Call[2], Call[3]>> \in EventType \X Ordinals
    <3>1. <<Call[2], Call[3]>>[1] \notin DOMAIN RunTold
      BY <1>2 DEF Told, Terminal, RunTold
    <3>2. QED
      BY <2>2, <3>1, RunToldStep DEF IInv, Tale
  <2>3. QED
    BY <1>4, <2>1, <2>2
<1>6. ASSUME NEW t \in Tasks
      PROVE  HasLast(TellsTask(t))' /\ ReplayedTask(t)' = ReplayedTask(t)
  <2>1. CASE events' = events
    BY <2>1, EventsStay DEF Tale
  <2>2. CASE events' = Append(events, <<Call[2], Call[3]>>) /\ <<Call[2], Call[3]>> \in EventType \X Ordinals
    <3>1. <<Call[2], Call[3]>>[1] \notin DOMAIN TaskTold
      BY <1>2 DEF Told, TaskTold
    <3>2. QED
      BY <2>2, <3>1, TaskToldStep DEF IInv, Tale
  <2>3. QED
    BY <1>4, <2>1, <2>2
<1>7. RunTale' = RunTale
  BY <1>1 DEF RunTale, Telling, Ending, Steps, Blank
<1>8. phase \in Turning => \A t \in Tasks : t # cur => task'[t] = task[t]
  <2>1. CASE k # RowAt(phase)
    BY <2>1, CallEffect DEF IInv
  <2>2. CASE k = RowAt(phase) /\ phase \in Turning
    <3>1. Call[1] = "status" \/ (Call[1] = "task" /\ Call[3] = cur)
      BY <1>1, <2>2, RowCalls DEF RowAt, Turning
    <3>2. task' = task \/ task' = [task EXCEPT ![cur] = Call[2]]
      BY <3>1, CallEffect DEF IInv
    <3>3. QED
      BY <3>2 DEF IInv, TypeOK
  <2>3. QED
    BY <2>1, <2>2
<1>9. phase \in {"complete", "fail"} => task' = task
  <2>1. CASE k # RowAt(phase)
    BY <2>1, CallEffect DEF IInv
  <2>2. CASE k = RowAt(phase) /\ phase \in {"complete", "fail"}
    <3>1. Call[1] = "status"
      BY <1>1, <2>2, RowCalls DEF RowAt
    <3>2. QED
      BY <3>1, CallEffect DEF IInv
  <2>3. QED
    BY <2>1, <2>2
<1>10. phase \in Turning => CurTale' = CurTale
  BY <1>1, <1>9 DEF CurTale, Telling, Ending, Steps, Turning
<1>11. ASSUME NEW t \in Tasks PROVE TaskTale(t)' = TaskTale(t)
  BY <1>1, <1>8, <1>10 DEF TaskTale, Tasks
<1>12. ended' # "returned"
  BY DEF StoreCall
<1>13. QED
  BY <1>5, <1>6, <1>7, <1>11, <1>12 DEF Tale

\* A call that tells replay something tells it what the row says.
LEMMA TellingStep ==
  ASSUME IInv, Tale, StoreCall, phase \in Telling, k = Steps(phase)
  PROVE  Tale'
<1>1. /\ k \in 1..Steps(phase) /\ Steps(phase) \in Nat /\ Call = Script(phase, cur)[k]
      /\ cur \in Tasks /\ phase \in Phases /\ k' = k + 1 /\ UNCHANGED <<phase, cur, ended>>
  BY CallEvents DEF IInv, TypeOK, StoreCall, Phases, Steps
<1>2. Call \in {"event"} \X EventType \X Ordinals
  <2>1. Call[1] = "event"
    BY <1>1, TellingCalls DEF Telling, Ending, Steps
  <2>2. QED
    BY <1>1, <2>1, ScriptCalls DEF StoreCalls
<1>3. events' = Append(events, <<Call[2], Call[3]>>) /\ task' = task /\ <<Call[2], Call[3]>> \in EventType \X Ordinals
  BY <1>2 DEF StoreCall, WriteEvent, SetRunStatus, SetTaskStatus, PutArtifact, InsertTasks
<1>4. PICK type \in EventType, o \in Ordinals : Call = <<"event", type, o>>
  BY <1>2
<1>5. events' = Append(events, <<type, o>>)
  BY <1>3, <1>4
<1>6. /\ HasLast(TellsRun)'
      /\ type \in DOMAIN RunTold => ReplayedStatus' = RunTold[type]
      /\ type \notin DOMAIN RunTold => ReplayedStatus' = ReplayedStatus
  BY <1>5, RunToldStep DEF IInv, Tale
<1>7. ASSUME NEW t \in Tasks
      PROVE  /\ HasLast(TellsTask(t))'
             /\ type \in DOMAIN TaskTold /\ o = t => ReplayedTask(t)' = TaskTold[type]
             /\ ~(type \in DOMAIN TaskTold /\ o = t) => ReplayedTask(t)' = ReplayedTask(t)
  <2>1. PICK e \in EventType \X Ordinals : e = <<type, o>>
    OBVIOUS
  <2>2. HasLast(TellsTask(t)) /\ events' = Append(events, e) /\ e[1] = type /\ e[2] = o
    BY <1>5, <2>1 DEF Tale
  <2>3. QED
    BY <2>2, TaskToldStep DEF IInv
<1>8. ended' # "returned"
  BY DEF StoreCall
<1>9. CASE phase \in {"plan", "cancel", "complete", "fail", "planfail"}
  <2>1. /\ phase = "plan" => type = "plan.created"
        /\ phase = "cancel" => type = "run.cancelled"
        /\ phase = "complete" => type = "run.completed"
        /\ phase \in {"fail", "planfail"} => type = "run.failed"
    <3>1. /\ phase = "plan" => k = 7
          /\ phase = "cancel" => k = 2
          /\ phase \in {"complete", "fail", "planfail"} => k = 4
      BY DEF Steps
    <3>2. /\ phase = "plan" => Call = <<"event", "plan.created", 0>>
          /\ phase = "cancel" => Call = <<"event", "run.cancelled", 0>>
          /\ phase = "complete" => Call = <<"event", "run.completed", 0>>
          /\ phase \in {"fail", "planfail"} => Call = <<"event", "run.failed", 0>>
      BY <1>1, <3>1, TellingCalls
    <3>3. QED
      BY <1>4, <3>2
  <2>2. type \in DOMAIN RunTold /\ type \notin DOMAIN TaskTold /\ RunTold[type] = RunTale'
    BY <1>1, <1>9, <2>1 DEF RunTold, TaskTold, RunTale, Telling, Ending, Steps
  <2>3. CurTale' = CurTale
    BY <1>1, <1>3, <1>9 DEF CurTale
  <2>4. \A t \in Tasks : TaskTale(t)' = TaskTale(t)
    BY <1>1, <1>3, <2>3 DEF TaskTale
  <2>5. QED
    BY <1>6, <1>7, <1>8, <2>2, <2>4 DEF Tale
<1>10. CASE phase \in {"assign", "skip", "won", "lost", "threw"}
  <2>1. /\ o = cur
        /\ phase = "assign" => type = "task.assigned"
        /\ phase = "skip" => type = "task.skipped"
        /\ phase = "won" => type = "task.completed"
        /\ phase \in {"lost", "threw"} => type = "task.failed"
    <3>1. /\ phase = "assign" => k = 4
          /\ phase = "skip" => k = 2
          /\ phase \in {"won", "lost", "threw"} => k = 9
      BY DEF Steps
    <3>2. /\ phase = "assign" => Call = <<"event", "task.assigned", cur>>
          /\ phase = "skip" => Call = <<"event", "task.skipped", cur>>
          /\ phase = "won" => Call = <<"event", "task.completed", cur>>
          /\ phase \in {"lost", "threw"} => Call = <<"event", "task.failed", cur>>
      BY <1>1, <3>1, TellingCalls
    <3>3. QED
      BY <1>4, <1>10, <3>2
  <2>2. type \notin DOMAIN RunTold /\ type \in DOMAIN TaskTold /\ TaskTold[type] = CurTale'
    BY <1>1, <1>10, <2>1 DEF RunTold, TaskTold, CurTale, Steps
  <2>3. RunTale' = RunTale
    BY <1>1, <1>10 DEF RunTale, Blank
  <2>4. ASSUME NEW t \in Tasks PROVE ReplayedTask(t)' = TaskTale(t)'
    <3>1. CASE t = cur
      BY <1>1, <1>7, <1>10, <2>1, <2>2, <3>1 DEF TaskTale, Turning, Tasks
    <3>2. CASE t # cur
      <4>1. ReplayedTask(t)' = TaskTale(t)
        BY <1>7, <2>1, <3>2 DEF Tale
      <4>2. TaskTale(t)' = TaskTale(t)
        BY <1>1, <1>3, <3>2 DEF TaskTale, Tasks
      <4>3. QED
        BY <4>1, <4>2
    <3>3. QED
      BY <3>1, <3>2
  <2>5. QED
    BY <1>6, <1>7, <1>8, <2>2, <2>3, <2>4 DEF Tale
<1>11. QED
  BY <1>9, <1>10 DEF Telling, Ending

\* A decision leaves the events, and finds the tale where the next script begins.
LEMMA TaleMoves ==
  ASSUME IInv, Tale, Decide \/ Asked \/ Dies, ~UNCHANGED <<phase, k, cur>>
  PROVE  Tale'
<1>1. UNCHANGED <<task, events>>
  BY DecisionStore DEF store
<1>2. /\ HasLast(TellsRun)' /\ ReplayedStatus' = ReplayedStatus
      /\ \A t \in Tasks : HasLast(TellsTask(t))' /\ ReplayedTask(t)' = ReplayedTask(t)
  BY <1>1, EventsStay DEF Tale
<1>3. /\ k' = 1 /\ k = Steps(phase) + 1
      /\ \/ cur' = cur /\ <<phase, phase'>> \in FromPhases
         \/ <<phase, phase'>> \in LoopPhases
         \/ /\ phase \in {"won", "skip"}
            /\ (phase' = "turn" /\ cur' = cur + 1) \/ (phase' = "complete" /\ cur' = cur)
  BY DecisionMoves DEF IInv
<1>4. RunTale' = RunTale
  BY <1>3 DEF RunTale, Telling, Ending, Steps, Blank, FromPhases, LoopPhases
<1>5. cur \in Tasks /\ cur \in Nat
  BY DEF IInv, TypeOK, Tasks
<1>6. ASSUME NEW t \in Tasks PROVE TaskTale(t)' = TaskTale(t)
  <2>1. CASE <<phase, phase'>> \in LoopPhases
    BY <2>1 DEF TaskTale, Turning, LoopPhases
  <2>2. CASE cur' = cur /\ <<phase, phase'>> \in FromPhases
    <3>1. CASE phase \notin Turning
      <4>1. phase' \in Turning => phase' = "turn" /\ cur = 1
        BY <2>2, <3>1 DEF FromPhases, Turning, IInv, Where
      <4>2. QED
        BY <2>2, <3>1, <4>1 DEF TaskTale, CurTale, Tasks
    <3>2. CASE phase \in Turning
      <4>1. phase' \in Turning /\ CurTale' = CurTale
        <5>1. phase \in {"lost", "threw"} => task[cur] = "failed"
          BY <1>3 DEF IInv, Where, TasksHere, Turning, AtTurn, CurAfter, RowAt, Steps
        <5>2. QED
          BY <1>1, <1>3, <2>2, <3>2, <5>1 DEF FromPhases, Turning, CurTale, Steps
      <4>2. QED
        BY <1>1, <2>2, <3>2, <4>1 DEF TaskTale
    <3>3. QED
      BY <3>1, <3>2
  <2>3. CASE phase \in {"won", "skip"} /\ ((phase' = "turn" /\ cur' = cur + 1) \/ (phase' = "complete" /\ cur' = cur))
    <3>1. task[cur] = CurTale
      BY <1>3, <2>3 DEF IInv, Where, TasksHere, Turning, AtTurn, CurAfter, RowAt, Steps, CurTale
    <3>2. CASE phase' = "turn" /\ cur' = cur + 1
      BY <1>1, <1>5, <2>3, <3>1, <3>2 DEF TaskTale, CurTale, Turning, Tasks
    <3>3. CASE phase' = "complete" /\ cur' = cur
      BY <1>1, <1>5, <2>3, <3>1, <3>3 DEF TaskTale, CurTale, Turning, Tasks
    <3>4. QED
      BY <2>3, <3>2, <3>3
  <2>4. QED
    BY <1>3, <2>1, <2>2, <2>3
<1>7. ended' # "returned"
  BY DEF Decide, Asked, Answer, Dies, Exit, At, From, Goto, ForEachTask, ConfigRaises, ConfigLoads, PlannerFails,
     PlannerRaises, PlannerPlans, GraphStored, RouteNext, PlanStored, AnnounceNext, PlanReturns, Unattended,
     ConfirmationRequired, Declined, NotAsked, NoAgents, RunBegins, BeforeTurnRaises, BeforeTurn, DryRun, Prompts,
     AgentReturns, NextTask, StopAtFailure, RunOver, AfterRun, AfterRunRaises
<1>8. QED
  BY <1>2, <1>4, <1>6, <1>7 DEF Tale

\* The end of the process leaves the tale; a command returns at the end of a script.
LEMMA TaleEnds ==
  ASSUME IInv, Tale, Decide \/ Asked \/ Dies, UNCHANGED <<phase, k, cur>>
  PROVE  Tale'
<1>1. UNCHANGED <<task, events>>
  BY DecisionStore DEF store
<1>2. /\ HasLast(TellsRun)' /\ ReplayedStatus' = ReplayedStatus
      /\ \A t \in Tasks : HasLast(TellsTask(t))' /\ ReplayedTask(t)' = ReplayedTask(t)
  BY <1>1, EventsStay DEF Tale
<1>3. RunTale' = RunTale /\ \A t \in Tasks : TaskTale(t)' = TaskTale(t)
  BY <1>1 DEF RunTale, TaskTale, CurTale
<1>4. ended' = "returned" => phase \in {"ready", "cancel", "complete", "fail"} /\ k = Steps(phase) + 1
  <2>1. SUFFICES ASSUME ended' = "returned", ended # "returned"
                 PROVE  \E ph \in {"ready", "cancel", "complete", "fail"} : At(ph)
    BY ScriptEnd DEF IInv, Phases, Tale
  <2>2. QED
    BY <2>1 DEF Decide, Asked, Answer, Dies, Exit, From, Goto, ForEachTask, ConfigRaises, ConfigLoads, PlannerFails,
       PlannerRaises, PlannerPlans, GraphStored, RouteNext, PlanStored, AnnounceNext, PlanReturns, Unattended,
       ConfirmationRequired, Declined, NotAsked, NoAgents, RunBegins, BeforeTurnRaises, BeforeTurn, DryRun, Prompts,
       AgentReturns, NextTask, StopAtFailure, RunOver, AfterRun, AfterRunRaises
<1>5. QED
  BY <1>2, <1>3, <1>4 DEF Tale

\* The tale is inductive.
LEMMA TaleStep ==
  ASSUME IInv, Tale, [Next]_vars
  PROVE  Tale'
<1>1. CASE StoreCall
  BY <1>1, SilentStep, TellingStep
<1>2. CASE Decide \/ Asked \/ Dies
  BY <1>2, TaleMoves, TaleEnds
<1>3. CASE UNCHANGED vars
  <2>1. UNCHANGED <<task, events, phase, k, cur, ended>>
    BY <1>3 DEF vars
  <2>2. QED
    BY <2>1, EventsStay DEF Tale, RunTale, TaskTale, CurTale
<1>4. QED
  BY <1>1, <1>2, <1>3 DEF Next

\* Replay shows nothing of a run that has no events.
LEMMA TaleInit == Init => Tale
<1>. SUFFICES ASSUME Init PROVE Tale
  OBVIOUS
<1>1. TellsRun = {} /\ \A t \in Tasks : TellsTask(t) = {}
  BY DEF Init, TellsRun, TellsTask
<1>2. phase = "create" /\ k = 1 /\ ended = "no"
  BY DEF Init
<1>3. QED
  BY <1>1, <1>2 DEF Tale, HasLast, ReplayedStatus, ReplayedTask, LastTold, RunTale, TaskTale, Blank, Telling, Ending,
     Turning

\* What the tale says of the rows: for a task, nothing else than the row but for the
\* task at hand, whose script is between the two.
LEMMA TaskTaleSound ==
  ASSUME IInv, Tale, NEW t \in TaskRows
  PROVE  /\ ReplayedTask(t) # task[t] =>
               t = cur /\ phase \in {"assign", "skip", "won", "lost", "threw"} /\ RowAt(phase) < k /\ k <= Steps(phase)
         /\ ReplayedTask(t) \in {"completed", "failed", "skipped"} => task[t] = ReplayedTask(t)
         /\ ReplayedTask(t) = "assigned" => task[t] # "pending"
<1>1. t \in Tasks /\ task[t] # "none" /\ ReplayedTask(t) = TaskTale(t) /\ cur \in Tasks /\ k \in Nat /\ phase \in Phases
  BY DEF TaskRows, Tale, IInv, TypeOK
<1>2. CASE phase \notin Turning
  <2>1. task[t] = "pending"
    BY <1>1, <1>2 DEF IInv, Where, TasksHere, Untouched, Fresh, Phases, Blank, Waiting, Turning
  <2>2. QED
    BY <1>1, <1>2, <2>1 DEF TaskTale
<1>3. CASE phase \in Turning
  <2>1. AtTurn
    BY <1>3 DEF IInv, Where, TasksHere
  <2>2. CASE t < cur
    BY <1>1, <1>3, <2>1, <2>2 DEF TaskTale, AtTurn, Lifecycle!DoneTask, Tasks
  <2>3. CASE cur < t
    BY <1>1, <1>3, <2>1, <2>3 DEF TaskTale, AtTurn, Tasks
  <2>4. CASE t = cur
    <3>1. ReplayedTask(t) = CurTale
      BY <1>1, <1>3, <2>4 DEF TaskTale, Tasks
    <3>2. task[cur] \in IF k <= RowAt(phase) THEN CurBefore ELSE CurAfter
      BY <2>1 DEF AtTurn
    <3>3. QED
      BY <1>1, <1>3, <2>4, <3>1, <3>2 DEF CurTale, CurBefore, CurAfter, Turning, RowAt, Steps, Lifecycle!DoneTask
  <2>5. QED
    BY <1>1, <2>2, <2>3, <2>4 DEF Tasks
<1>4. QED
  BY <1>2, <1>3

\* The same of the run.
LEMMA RunTaleSound ==
  ASSUME IInv, Tale
  PROVE  /\ ReplayedStatus # Visible(status) => phase \notin {"assign", "skip", "won", "lost", "threw"}
         /\ ReplayedStatus \in Lifecycle!EndedRun => status = ReplayedStatus
<1>1. ReplayedStatus = RunTale /\ k \in Nat /\ phase \in Phases /\ StatusHere
  BY DEF Tale, IInv, TypeOK, Where
<1>2. CASE phase \in {"assign", "skip", "won", "lost", "threw"}
  BY <1>1, <1>2 DEF RunTale, StatusHere, StatusBefore, StatusAfter, Visible, Blank, Lifecycle!EndedRun
<1>3. CASE phase \notin {"assign", "skip", "won", "lost", "threw"}
  <2>1. ReplayedStatus \in Lifecycle!EndedRun =>
          phase \in {"cancel", "complete", "fail", "planfail"} /\ k > Steps(phase)
    BY <1>1 DEF RunTale, Blank, Telling, Ending, Lifecycle!EndedRun
  <2>2. QED
    BY <1>1, <1>3, <2>1 DEF RunTale, StatusHere, StatusAfter, RowAt, Steps, Blank, Telling, Ending
<1>4. QED
  BY <1>2, <1>3

\* Where a command returns, replay shows the rows.
LEMMA TaleAtReturn ==
  ASSUME IInv, Tale
  PROVE  ReplayAgreesAtReturn
<1>1. SUFFICES ASSUME ended = "returned"
               PROVE  ReplayedStatus = status /\ \A t \in TaskRows : ReplayedTask(t) = task[t]
  BY DEF ReplayAgreesAtReturn
<1>2. phase \in {"ready", "cancel", "complete", "fail"} /\ k = Steps(phase) + 1
  BY <1>1 DEF Tale
<1>3. ReplayedStatus = status
  BY <1>2 DEF Tale, RunTale, IInv, Where, StatusHere, StatusAfter, RowAt, Steps, Blank, Telling, Ending
<1>4. QED
  BY <1>2, <1>3, TaskTaleSound

\* A process leaves at most one status that differs, wherever it dies: a task's while the
\* task is at hand, or else the run's.
LEMMA OneUntold ==
  ASSUME IInv, Tale
  PROVE  DifferInOne
<1>. DEFINE untold == {t \in TaskRows : ReplayedTask(t) # task[t]}
<1>1. untold = {} \/ untold = {cur}
  BY TaskTaleSound
<1>2. untold # {} => ReplayedStatus = Visible(status)
  BY TaskTaleSound, RunTaleSound
<1>3. Cardinality(untold) \in {0, 1} /\ (untold = {} => Cardinality(untold) = 0)
  BY <1>1, FS_EmptySet, FS_Singleton
<1>4. QED
  BY <1>2, <1>3 DEF DifferInOne

\* The plan is kept: its artifacts are put by three calls of the script that ends by
\* telling of it.
PlanPut ==
  /\ phase \notin Blank \cup {"plan"} => PlanKept \subseteq artifacts
  /\ phase = "plan" => /\ k > 3 => <<"plan.json", 0>> \in artifacts
                       /\ k > 4 => <<"artifact.plan.json", 0>> \in artifacts
                       /\ k > 5 => <<"artifact.plan.md", 0>> \in artifacts

LEMMA PlanStep ==
  ASSUME TypeOK, PlanPut, [Next]_vars
  PROVE  PlanPut'
<1>1. CASE StoreCall
  <2>1. /\ k \in Nat /\ k' = k + 1 /\ phase' = phase /\ Call = Script(phase, cur)[k]
    BY <1>1, CallEvents DEF TypeOK, StoreCall
  <2>2. /\ Script("plan", cur)[3] = <<"put", "plan.json", 0>>
        /\ Script("plan", cur)[4] = <<"put", "artifact.plan.json", 0>>
        /\ Script("plan", cur)[5] = <<"put", "artifact.plan.md", 0>>
    BY DEF Script, Put
  <2>3. artifacts \subseteq artifacts' /\ (Call[1] = "put" => <<Call[2], Call[3]>> \in artifacts')
    BY <1>1, CallWrites
  <2>4. phase = "plan" => /\ k = 3 => <<"plan.json", 0>> \in artifacts'
                          /\ k = 4 => <<"artifact.plan.json", 0>> \in artifacts'
                          /\ k = 5 => <<"artifact.plan.md", 0>> \in artifacts'
    BY <2>1, <2>2, <2>3
  <2>5. /\ k' > 3 => k > 3 \/ k = 3
        /\ k' > 4 => k > 4 \/ k = 4
        /\ k' > 5 => k > 5 \/ k = 5
    BY <2>1
  <2>6. QED
    BY <2>1, <2>3, <2>4, <2>5 DEF PlanPut, Blank
<1>2. CASE Decide \/ Asked \/ Dies
  <2>1. artifacts' = artifacts
    BY <1>2, DecisionStore DEF store
  <2>2. phase = "plan" /\ k = Steps(phase) + 1 => PlanKept \subseteq artifacts
    BY DEF PlanPut, PlanKept, Steps
  <2>3. CASE UNCHANGED <<phase, k, cur>>
    BY <2>1, <2>3 DEF PlanPut, Blank
  <2>4. CASE k' = 1 /\ k = Steps(phase) + 1
    <3>1. phase' \notin Blank \cup {"plan"} => phase \notin Blank
      BY <1>2, <2>4, DecisionMoves DEF FromPhases, LoopPhases, Blank, Steps
    <3>2. QED
      BY <2>1, <2>2, <2>4, <3>1 DEF PlanPut
  <2>5. QED
    BY <1>2, <2>3, <2>4, DecisionMoves
<1>3. CASE UNCHANGED vars
  BY <1>3 DEF vars, PlanPut, Blank
<1>4. QED
  BY <1>1, <1>2, <1>3 DEF Next

\* Once replay tells of the plan, it is kept and its tasks have rows.
LEMMA PlanTold ==
  ASSUME IInv, Tale, PlanPut, ReplayedStatus = "planned"
  PROVE  /\ PlanKept \subseteq artifacts /\ TaskRows = 1..count
         /\ status = "created" => \A t \in TaskRows : task[t] = "pending"
<1>1. /\ RunTale = "planned" /\ phase \in Phases /\ k \in Nat /\ count \in 0..MaxTasks /\ MaxTasks \in Nat
      /\ cur \in Tasks /\ StatusHere /\ TasksHere
  BY OrchestratorAssumption DEF Tale, IInv, TypeOK, Where
<1>2. (phase = "plan" /\ k > 7) \/ phase \in Waiting \/ phase \in Turning
  BY <1>1 DEF RunTale, Blank, Telling, Ending, Steps, Waiting, Turning, Phases
<1>3. PlanKept \subseteq artifacts
  BY <1>1, <1>2 DEF PlanPut, PlanKept, Blank, Waiting, Turning
<1>4. CASE (phase = "plan" /\ k > 7) \/ phase \in Waiting
  <2>1. Fresh
    BY <1>1, <1>4 DEF TasksHere
  <2>2. QED
    BY <1>1, <1>3, <2>1 DEF Fresh, TaskRows, Tasks
<1>5. CASE phase \in Turning
  <2>1. AtTurn /\ cur <= count
    BY <1>1, <1>5 DEF TasksHere, IInv, Where, Turning
  <2>2. task[cur] # "none"
    BY <2>1 DEF AtTurn, CurBefore, CurAfter, Lifecycle!DoneTask
  <2>3. \A t \in Tasks : t < cur => task[t] # "none"
    BY <2>1 DEF AtTurn, Lifecycle!DoneTask
  <2>4. \A t \in Tasks : task[t] # "none" <=> t <= count
    BY <1>1, <2>1, <2>2, <2>3 DEF AtTurn, Tasks
  <2>5. status # "created"
    BY <1>1, <1>5 DEF StatusHere, StatusBefore, StatusAfter, Turning
  <2>6. QED
    BY <1>1, <1>3, <2>4, <2>5 DEF TaskRows, Tasks
<1>6. QED
  BY <1>2, <1>4, <1>5

\* Replay tells only what is in the store, differs from the rows in at most one status,
\* and agrees with them when the command has returned (replay.py: replay_summary).
THEOREM ReplayIsFaithful == Spec => []ReplayFaithful
<1>1. IInv /\ Tale /\ PlanPut => ReplayFaithful
  <2>1. SUFFICES ASSUME IInv, Tale, PlanPut PROVE ReplayFaithful
    OBVIOUS
  <2>2. ReplayBacked
    BY <2>1, TaskTaleSound, RunTaleSound, PlanTold DEF ReplayBacked
  <2>3. QED
    BY <2>1, <2>2, OneUntold, TaleAtReturn DEF ReplayFaithful
<1>2. Init => PlanPut
  BY DEF Init, PlanPut, Blank
<1>3. IInv /\ Tale /\ PlanPut /\ [Next]_vars => Tale' /\ PlanPut'
  BY TaleStep, PlanStep DEF IInv
<1>4. QED
  BY <1>1, <1>2, <1>3, TaleInit, Invariance, PTL DEF Spec

-----------------------------------------------------------------------------
(* Lanes, with any commands of a verification and any reviewers.  Whatever *)
(* a lane does leaves the variables of the command alone, so TypeOK of     *)
(* Orchestrator holds beside them too, and once the command is over the    *)
(* artifacts that a review reads do not change.                            *)

Verdicts == {"none", "accepted", "rejected", "unusable", "passed", "failed"}

\* What a verdict may give as its sources.
Sources == (ArtifactKind \cup Kinds \cup {"ledger"}) \X Ordinals
SourcesNow == Files \cup {<<"ledger", 0>>}

LaneRecords ==
  [step : {"idle", "lookup", "ask", "file", "row", "over"}, kind : Kinds, after : BOOLEAN,
   behind : SUBSET Procs, saw : SUBSET (ArtifactKind \X Ordinals),
   listed : SUBSET Sources, reply : Replies \cup {"none"}, verdict : Verdicts]

LaneTypes ==
  /\ lane \in [Procs -> LaneRecords]
  /\ file \in [Kinds -> Verdicts] /\ shown \in [Kinds -> Verdicts]
  /\ half \in BOOLEAN /\ raced \subseteq Kinds

\* Half of a verdict is written only while its row is the command's next call.
HalfGiven == half => Given # Nothing

-----------------------------------------------------------------------------
(* The command beside the lanes.                                           *)

\* A step here is a step of the command, or leaves its variables alone.
LEMMA CommandSteps ==
  ASSUME [LanesNext]_<<vars, laneVars>>
  PROVE  [Next]_vars
BY DEF LanesNext, Command, CommandWritesFile, CommandPuts, CommandDies, Next

\* So the types of Orchestrator are kept.
LEMMA CommandTypes == LanesSpec => []TypeOK
<1>1. LanesInit => Init
  BY DEF LanesInit
<1>2. [LanesNext]_<<vars, laneVars>> => [Next]_vars
  BY CommandSteps
<1>3. QED
  BY <1>1, <1>2, TypeCorrect, PTL DEF LanesSpec, Spec

\* While a verdict's row is to come the command can do nothing but put it, or die.
LEMMA HalfHolds ==
  ASSUME TypeOK, Given # Nothing, Decide \/ Asked
  PROVE  FALSE
<1>1. /\ ended = "no" /\ InScript /\ Call[1] = "put" /\ k \in Nat /\ phase \in Phases /\ cur \in Tasks
      /\ Len(Script(phase, cur)) \in Nat
  BY ScriptCalls DEF Given, TypeOK, Phases, Steps
<1>2. ~NoAgents
  BY <1>1, RowCalls DEF NoAgents, Call
<1>3. \A ph \in Phases : ~At(ph)
  BY <1>1 DEF At, InScript
<1>4. QED
  BY <1>2, <1>3 DEF Decide, Asked, Answer, Dies, From, ForEachTask, ConfigRaises, ConfigLoads, PlannerFails,
     PlannerRaises, PlannerPlans, GraphStored, RouteNext, PlanStored, AnnounceNext, PlanReturns, Unattended,
     ConfirmationRequired, Declined, NotAsked, RunBegins, BeforeTurnRaises, BeforeTurn, DryRun, Prompts, AgentReturns,
     NextTask, StopAtFailure, RunOver, AfterRun, AfterRunRaises, Phases

\* What a command gives is a verdict of a kind.
LEMMA GivenTypes ==
  ASSUME Given # Nothing
  PROVE  Given.kind \in Kinds /\ Given.verdict \in Verdicts
BY DEF Given, Nothing, Kinds, Verdicts

-----------------------------------------------------------------------------
(* The lanes, one at a time.                                               *)

\* What each step of a lane makes of its record: r is the new one.
Effect(l, r) ==
  /\ lane' = [lane EXCEPT ![l] = r] /\ r.kind = lane[l].kind
  /\ \/ /\ ReviewPrompt(l) /\ lane[l].step = "idle" /\ r.step = "lookup"
        /\ r.after = (ended # "no") /\ r.behind = Over /\ r.saw = Reviewable /\ r.reply = lane[l].reply
     \/ /\ ReviewAgain(l) \/ ReviewAnswered(l)
        /\ r.step = "file" /\ r.after = lane[l].after /\ r.behind = lane[l].behind /\ r.saw = lane[l].saw
        /\ r.listed = SourcesNow /\ r.reply \in Replies
        /\ \/ lane[l].step = "lookup" /\ r.reply \in Stored(l) /\ replies' = replies
           \/ lane[l].step = "ask" /\ replies' = replies \cup {<<lane[l].saw, r.reply>>}
     \/ /\ ReviewAsks(l) /\ lane[l].step = "lookup" /\ r.step = "ask"
        /\ r.after = lane[l].after /\ r.behind = lane[l].behind
        /\ r.saw = lane[l].saw /\ r.reply = lane[l].reply
     \/ /\ Checks(l) /\ lane[l].step = "idle" /\ r.step = "file" /\ r.kind = "verify"
        /\ r.after = lane[l].after /\ r.behind = lane[l].behind /\ r.reply = lane[l].reply
     \/ /\ WriteFile(l) /\ lane[l].step = "file" /\ r.step = "row" /\ r.verdict = lane[l].verdict
        /\ r.after = lane[l].after /\ r.behind = {}
        /\ r.reply = IF lane[l].after THEN lane[l].reply ELSE "none"
     \/ /\ PutRow(l) \/ Stops(l)
        /\ lane[l].step \in {"lookup", "ask", "file", "row"} /\ r.step = "over" /\ ~r.after /\ r.behind = {}
        /\ r.reply = IF lane[l].after THEN lane[l].reply ELSE "none"

LEMMA LaneEffect ==
  ASSUME TypeOK, LaneTypes, NEW l \in Procs, LaneStep(l)
  PROVE  \E r \in LaneRecords : Effect(l, r)
<1>. USE DEF Is, Set
<1>1. /\ lane[l] \in LaneRecords /\ Over \in SUBSET Procs /\ Reviewable \in SUBSET (ArtifactKind \X Ordinals)
      /\ SourcesNow \in SUBSET Sources
  BY DEF LaneTypes, TypeOK, Over, Reviewable, SourcesNow, Sources, Files, Ordinals, Kinds
<1>2. CASE ReviewPrompt(l)
  <2>. DEFINE r == [lane[l] EXCEPT !.step = "lookup", !.after = ended # "no", !.behind = Over, !.saw = Reviewable]
  <2>1. r \in LaneRecords
    BY <1>1 DEF LaneRecords
  <2>2. Effect(l, r)
    BY <1>1, <1>2 DEF Effect, ReviewPrompt, LaneRecords
  <2>3. QED
    BY <2>1, <2>2
<1>3. ASSUME NEW reply \in Replies, Judged(l, reply)
      PROVE  \E r \in LaneRecords :
               /\ lane' = [lane EXCEPT ![l] = r] /\ r.kind = lane[l].kind
               /\ r.step = "file" /\ r.after = lane[l].after /\ r.behind = lane[l].behind /\ r.saw = lane[l].saw
               /\ r.listed = SourcesNow /\ r.reply = reply
  <2>1. VerdictsOf(reply) \subseteq Verdicts
    BY LanesAssumption DEF VerdictsOf, Verdicts
  <2>2. PICK v \in Verdicts :
          lane' = [lane EXCEPT ![l] = [lane[l] EXCEPT !.step = "file", !.listed = SourcesNow, !.reply = reply,
                                                      !.verdict = v]]
    BY <1>3, <2>1 DEF Judged, SourcesNow
  <2>. DEFINE r == [lane[l] EXCEPT !.step = "file", !.listed = SourcesNow, !.reply = reply, !.verdict = v]
  <2>3. r \in LaneRecords
    BY <1>1 DEF LaneRecords
  <2>4. QED
    BY <1>1, <2>2, <2>3 DEF LaneRecords
<1>4. CASE ReviewAgain(l)
  <2>1. PICK reply \in Stored(l) : Judged(l, reply)
    BY <1>4 DEF ReviewAgain
  <2>2. reply \in Replies /\ lane[l].step = "lookup" /\ replies' = replies
    BY <1>4, <2>1 DEF ReviewAgain, Stored
  <2>3. QED
    BY <1>3, <1>4, <2>1, <2>2 DEF Effect
<1>5. CASE ReviewAnswered(l)
  <2>1. PICK reply \in Replies : Judged(l, reply) /\ replies' = replies \cup {<<lane[l].saw, reply>>}
    BY <1>5 DEF ReviewAnswered
  <2>2. lane[l].step = "ask"
    BY <1>5 DEF ReviewAnswered
  <2>3. QED
    BY <1>3, <1>5, <2>1, <2>2 DEF Effect
<1>6. CASE ReviewAsks(l)
  <2>. DEFINE r == [lane[l] EXCEPT !.step = "ask"]
  <2>1. r \in LaneRecords
    BY <1>1 DEF LaneRecords
  <2>2. Effect(l, r)
    BY <1>1, <1>6 DEF Effect, ReviewAsks, LaneRecords
  <2>3. QED
    BY <2>1, <2>2
<1>7. CASE Checks(l)
  <2>1. PICK v \in {"passed", "failed"} : lane' = [lane EXCEPT ![l] = [lane[l] EXCEPT !.step = "file", !.verdict = v]]
    BY <1>7 DEF Checks
  <2>. DEFINE r == [lane[l] EXCEPT !.step = "file", !.verdict = v]
  <2>2. r \in LaneRecords
    BY <1>1 DEF LaneRecords, Verdicts
  <2>3. lane[l].step = "idle" /\ lane[l].kind = "verify"
    BY <1>7 DEF Checks
  <2>4. Effect(l, r)
    BY <1>1, <1>7, <2>1, <2>3 DEF Effect, LaneRecords
  <2>5. QED
    BY <2>2, <2>4
<1>8. ASSUME NEW step \in {"row", "over"}
      PROVE  /\ Kept(l, step) \in LaneRecords
             /\ Kept(l, step).step = step /\ Kept(l, step).kind = lane[l].kind
             /\ Kept(l, step).after = lane[l].after /\ Kept(l, step).behind = {}
             /\ Kept(l, step).reply = IF lane[l].after THEN lane[l].reply ELSE "none"
  <2>1. PICK reply : reply = IF lane[l].after THEN lane[l].reply ELSE "none"
    OBVIOUS
  <2>2. lane[l].kind \in Kinds /\ lane[l].after \in BOOLEAN /\ reply \in Replies \cup {"none"}
    BY <1>1, <2>1 DEF LaneRecords
  <2>. DEFINE records == [step : {"idle", "row", "over"}, kind : Kinds \cup {"none"}, after : BOOLEAN, behind : {{}},
                          saw : {{}}, listed : {{}}, reply : Replies \cup {"none"}, verdict : {"none"}]
  <2>3. Idle \in records
    BY DEF Idle
  <2>4. Kept(l, step) = [Idle EXCEPT !.step = step, !.kind = lane[l].kind, !.after = lane[l].after, !.reply = reply]
    BY <2>1 DEF Kept
  <2>5. QED
    BY <2>1, <2>2, <2>3, <2>4 DEF Idle, LaneRecords, Verdicts
<1>9. CASE WriteFile(l)
  <2>. DEFINE r == [Kept(l, "row") EXCEPT !.verdict = lane[l].verdict]
  <2>1. /\ r \in LaneRecords /\ r.kind = lane[l].kind /\ r.step = "row" /\ r.verdict = lane[l].verdict
        /\ r.after = lane[l].after /\ r.behind = {} /\ r.reply = IF lane[l].after THEN lane[l].reply ELSE "none"
    BY <1>1, <1>8 DEF LaneRecords
  <2>2. Effect(l, r)
    BY <1>9, <2>1 DEF Effect, WriteFile
  <2>3. QED
    BY <2>1, <2>2
<1>10. CASE PutRow(l) \/ Stops(l)
  <2>. DEFINE r == [Kept(l, "over") EXCEPT !.after = FALSE]
  <2>1. /\ r \in LaneRecords /\ r.kind = lane[l].kind /\ r.step = "over" /\ ~r.after /\ r.behind = {}
        /\ r.reply = IF lane[l].after THEN lane[l].reply ELSE "none"
    BY <1>1, <1>8 DEF LaneRecords
  <2>2. Effect(l, r)
    BY <1>10, <2>1 DEF Effect, PutRow, Stops, Ends
  <2>3. QED
    BY <2>1, <2>2
<1>11. QED
  BY <1>2, <1>4, <1>5, <1>6, <1>7, <1>9, <1>10 DEF LaneStep

\* The types are kept.
LEMMA LaneTypesStep ==
  ASSUME TypeOK, LaneTypes, HalfGiven, [LanesNext]_<<vars, laneVars>>
  PROVE  LaneTypes'
<1>1. CASE UNCHANGED laneVars
  BY <1>1 DEF laneVars, LaneTypes, LaneRecords
<1>2. CASE CommandWritesFile \/ CommandPuts \/ CommandDies
  <2>1. Given # Nothing => Given.kind \in Kinds /\ Given.verdict \in Verdicts
    BY GivenTypes
  <2>2. QED
    BY <1>2, <2>1 DEF HalfGiven, CommandWritesFile, CommandPuts, CommandDies, Writes, LaneTypes, LaneRecords
<1>3. ASSUME NEW l \in Procs, LaneStep(l)
      PROVE  LaneTypes'
  <2>1. lane' \in [Procs -> LaneRecords]
    BY <1>3, LaneEffect DEF LaneTypes, Effect
  <2>2. lane[l].kind \in Kinds /\ lane[l].verdict \in Verdicts
    BY DEF LaneTypes, LaneRecords
  <2>3. QED
    BY <1>3, <2>1, <2>2 DEF LaneTypes, LaneStep, ReviewPrompt, ReviewAgain, ReviewAsks, ReviewAnswered, Checks,
       WriteFile, PutRow, Stops, Writes
<1>4. QED
  BY <1>1, <1>2, <1>3 DEF LanesNext, Command

-----------------------------------------------------------------------------
(* A verdict's file and its row.                                           *)

\* Unless the kind was raced for, at most one is between the file and the row of a
\* verdict, and the file holds what its writer will put; if nobody is, they agree.
WriterKnown ==
  \A kd \in Kinds \ raced :
    /\ \A l \in Between(kd) : Between(kd) = {l} /\ ~HalfOf(kd) /\ file[kd] = lane[l].verdict
    /\ HalfOf(kd) => file[kd] = Given.verdict
    /\ Between(kd) = {} /\ ~HalfOf(kd) => file[kd] = shown[kd]

LEMMA WriterStep ==
  ASSUME TypeOK, LaneTypes, HalfGiven, WriterKnown, [LanesNext]_<<vars, laneVars>>
  PROVE  HalfGiven' /\ WriterKnown'
<1>. USE DEF Is
<1>1. CASE UNCHANGED <<vars, laneVars>>
  BY <1>1 DEF vars, laneVars, HalfGiven, WriterKnown, Between, HalfOf, Given, InScript, Call
<1>2. CASE CommandWritesFile
  <2>1. /\ UNCHANGED <<lane, shown>> /\ Given' = Given /\ Given # Nothing /\ ~half /\ half'
        /\ Writes(Given.kind, Given.verdict) /\ Given.kind \in Kinds
    BY <1>2, GivenTypes DEF CommandWritesFile, vars, Given, InScript, Call
  <2>2. \A kd \in Kinds : Between(kd)' = Between(kd) /\ ~HalfOf(kd) /\ (HalfOf(kd)' <=> kd = Given.kind)
    BY <2>1 DEF Between, HalfOf
  <2>3. HalfGiven'
    BY <2>1 DEF HalfGiven
  <2>4. ASSUME NEW kd \in Kinds \ raced'
        PROVE  /\ \A l \in Between(kd)' : Between(kd)' = {l} /\ ~HalfOf(kd)' /\ file'[kd] = lane'[l].verdict
               /\ HalfOf(kd)' => file'[kd] = Given'.verdict
               /\ Between(kd)' = {} /\ ~HalfOf(kd)' => file'[kd] = shown'[kd]
    <3>1. kd \in Kinds \ raced
      BY <2>1, <2>4 DEF Writes
    <3>2. CASE kd = Given.kind
      <4>1. Between(kd) = {}
        BY <2>1, <2>2, <2>4, <3>2 DEF Writes
      <4>2. file'[kd] = Given.verdict
        BY <2>1, <3>2 DEF Writes, LaneTypes
      <4>3. QED
        BY <2>1, <2>2, <3>2, <4>1, <4>2
    <3>3. CASE kd # Given.kind
      <4>1. file'[kd] = file[kd]
        BY <2>1, <3>3 DEF Writes, LaneTypes
      <4>2. QED
        BY <2>1, <2>2, <3>1, <3>3, <4>1 DEF WriterKnown
    <3>4. QED
      BY <3>2, <3>3
  <2>5. QED
    BY <2>3, <2>4 DEF WriterKnown
<1>3. CASE CommandPuts
  <2>1. /\ UNCHANGED <<lane, file, raced>> /\ Given # Nothing /\ half /\ ~half' /\ Given.kind \in Kinds
        /\ shown' = [shown EXCEPT ![Given.kind] = Given.verdict]
    BY <1>3, GivenTypes DEF CommandPuts
  <2>2. \A kd \in Kinds : Between(kd)' = Between(kd) /\ ~HalfOf(kd)' /\ (HalfOf(kd) <=> kd = Given.kind)
    BY <2>1 DEF Between, HalfOf
  <2>3. ASSUME NEW kd \in Kinds \ raced
        PROVE  /\ \A l \in Between(kd)' : Between(kd)' = {l} /\ ~HalfOf(kd)' /\ file'[kd] = lane'[l].verdict
               /\ HalfOf(kd)' => file'[kd] = Given'.verdict
               /\ Between(kd)' = {} /\ ~HalfOf(kd)' => file'[kd] = shown'[kd]
    BY <2>1, <2>2, <2>3 DEF WriterKnown, LaneTypes
  <2>4. QED
    BY <2>1, <2>3 DEF WriterKnown, HalfGiven
<1>4. CASE CommandDies
  <2>1. /\ UNCHANGED <<lane, file, shown>> /\ ~half'
        /\ raced' = IF half THEN raced \cup {Given.kind} ELSE raced
    BY <1>4 DEF CommandDies
  <2>2. \A kd \in Kinds : Between(kd)' = Between(kd) /\ ~HalfOf(kd)' /\ (HalfOf(kd) => kd \in raced')
    BY <2>1 DEF Between, HalfOf
  <2>3. ASSUME NEW kd \in Kinds \ raced'
        PROVE  /\ \A l \in Between(kd)' : Between(kd)' = {l} /\ ~HalfOf(kd)' /\ file'[kd] = lane'[l].verdict
               /\ HalfOf(kd)' => file'[kd] = Given'.verdict
               /\ Between(kd)' = {} /\ ~HalfOf(kd)' => file'[kd] = shown'[kd]
    BY <2>1, <2>2, <2>3 DEF WriterKnown
  <2>4. QED
    BY <2>1, <2>3 DEF WriterKnown, HalfGiven
<1>5. CASE ((Given = Nothing /\ StoreCall) \/ Decide \/ Asked) /\ UNCHANGED laneVars
  <2>1. ~half
    BY <1>5, HalfHolds DEF HalfGiven
  <2>2. UNCHANGED <<lane, file, shown, half, raced>>
    BY <1>5 DEF laneVars
  <2>3. QED
    BY <2>1, <2>2 DEF HalfGiven, WriterKnown, Between, HalfOf
<1>6. ASSUME NEW l \in Procs, LaneStep(l), UNCHANGED vars
      PROVE  HalfGiven' /\ WriterKnown'
  <2>0. PICK r \in LaneRecords : Effect(l, r)
    BY <1>6, LaneEffect
  <2>1. Given' = Given /\ half' = half
    BY <1>6 DEF vars, Given, InScript, Call, LaneStep, ReviewPrompt, ReviewAgain, ReviewAsks, ReviewAnswered, Checks,
       WriteFile, PutRow, Stops
  <2>2. HalfGiven' /\ \A kd \in Kinds : HalfOf(kd)' <=> HalfOf(kd)
    BY <2>1 DEF HalfGiven, HalfOf
  <2>3. /\ lane' = [lane EXCEPT ![l] = r] /\ r.kind = lane[l].kind
        /\ r.step = "row" => WriteFile(l) /\ lane[l].step = "file" /\ r.verdict = lane[l].verdict
        /\ r.step # "row" => \/ ReviewPrompt(l) \/ ReviewAgain(l) \/ ReviewAsks(l) \/ ReviewAnswered(l)
                             \/ Checks(l) \/ PutRow(l) \/ Stops(l)
        /\ lane[l].step = "row" => r.step # "row" /\ (PutRow(l) \/ Stops(l))
    BY <1>6, <2>0 DEF Effect
  <2>4. CASE r.step = "row"
    <3>1. \A kd \in Kinds : Between(kd)' = IF kd = lane[l].kind THEN Between(kd) \cup {l} ELSE Between(kd)
      BY <2>3, <2>4 DEF Between, LaneTypes
    <3>2. Writes(lane[l].kind, lane[l].verdict) /\ shown' = shown
      BY <2>3, <2>4 DEF WriteFile
    <3>3. ASSUME NEW kd \in Kinds \ raced'
          PROVE  /\ \A m \in Between(kd)' : Between(kd)' = {m} /\ ~HalfOf(kd)' /\ file'[kd] = lane'[m].verdict
                 /\ HalfOf(kd)' => file'[kd] = Given'.verdict
                 /\ Between(kd)' = {} /\ ~HalfOf(kd)' => file'[kd] = shown'[kd]
      <4>1. kd \in Kinds \ raced
        BY <3>2, <3>3 DEF Writes
      <4>2. CASE kd = lane[l].kind
        <5>1. Between(kd) = {} /\ ~HalfOf(kd) /\ file'[kd] = lane[l].verdict
          BY <3>2, <3>3, <4>2 DEF Writes, LaneTypes
        <5>2. lane'[l].verdict = lane[l].verdict
          BY <2>3, <2>4 DEF LaneTypes
        <5>3. QED
          BY <2>1, <2>2, <3>1, <4>2, <5>1, <5>2
      <4>3. CASE kd # lane[l].kind
        <5>1. file'[kd] = file[kd]
          BY <3>2, <4>3 DEF Writes, LaneTypes
        <5>2. \A m \in Between(kd) : m # l /\ lane'[m] = lane[m]
          BY <2>3, <2>4 DEF Between, LaneTypes
        <5>3. QED
          BY <2>1, <2>2, <3>1, <3>2, <4>1, <4>3, <5>1, <5>2 DEF WriterKnown
      <4>4. QED
        BY <4>2, <4>3
    <3>4. QED
      BY <2>2, <3>3 DEF WriterKnown
  <2>5. CASE lane[l].step = "row"
    <3>1. PutRow(l) \/ Stops(l)
      BY <2>3, <2>5
    <3>2. \A kd \in Kinds : Between(kd)' = Between(kd) \ {l}
      BY <2>3, <2>5 DEF Between, LaneTypes
    <3>3. l \in Between(lane[l].kind) /\ file' = file
      BY <2>5, <3>1 DEF Between, PutRow, Stops
    <3>4. ASSUME NEW kd \in Kinds \ raced'
          PROVE  /\ \A m \in Between(kd)' : Between(kd)' = {m} /\ ~HalfOf(kd)' /\ file'[kd] = lane'[m].verdict
                 /\ HalfOf(kd)' => file'[kd] = Given'.verdict
                 /\ Between(kd)' = {} /\ ~HalfOf(kd)' => file'[kd] = shown'[kd]
      <4>1. kd \in Kinds \ raced
        BY <3>1, <3>4 DEF PutRow, Stops
      <4>2. CASE kd = lane[l].kind
        <5>1. shown'[kd] = lane[l].verdict
          BY <2>5, <3>1, <3>4, <4>2 DEF PutRow, Stops, LaneTypes
        <5>2. Between(kd) = {l} /\ ~HalfOf(kd) /\ file[kd] = lane[l].verdict
          BY <3>3, <4>1, <4>2 DEF WriterKnown
        <5>3. QED
          BY <2>2, <3>2, <3>3, <5>1, <5>2
      <4>3. CASE kd # lane[l].kind
        <5>1. shown'[kd] = shown[kd]
          BY <3>1, <4>3 DEF PutRow, Stops, LaneTypes
        <5>2. l \notin Between(kd) /\ \A m \in Between(kd) : lane'[m] = lane[m]
          BY <2>3, <4>3 DEF Between, LaneTypes
        <5>3. QED
          BY <2>1, <2>2, <3>2, <3>3, <4>1, <5>1, <5>2 DEF WriterKnown
      <4>4. QED
        BY <4>2, <4>3
    <3>5. QED
      BY <2>2, <3>4 DEF WriterKnown
  <2>6. CASE r.step # "row" /\ lane[l].step # "row"
    <3>1. \A kd \in Kinds : Between(kd)' = Between(kd) /\ \A m \in Between(kd) : lane'[m] = lane[m]
      BY <2>3, <2>6 DEF Between, LaneTypes
    <3>2. UNCHANGED <<file, shown, raced>>
      BY <2>3, <2>6 DEF ReviewPrompt, ReviewAgain, ReviewAsks, ReviewAnswered, Checks, PutRow, Stops
    <3>3. QED
      BY <2>1, <2>2, <3>1, <3>2 DEF WriterKnown
  <2>7. QED
    BY <2>4, <2>5, <2>6
<1>7. QED
  BY <1>1, <1>2, <1>3, <1>4, <1>5, <1>6 DEF LanesNext, Command

\* At first no lane has started and no verdict is there.
LEMMA LanesStart ==
  ASSUME LanesInit
  PROVE  LaneTypes /\ HalfGiven /\ WriterKnown /\ \A l \in Procs : lane[l].step = "idle" /\ ~lane[l].after
<1>1. PICK kd \in Kinds : lane = [l \in Procs |-> [Idle EXCEPT !.kind = kd]]
  BY DEF LanesInit
<1>2. /\ [Idle EXCEPT !.kind = kd] \in LaneRecords
      /\ [Idle EXCEPT !.kind = kd].step = "idle" /\ ~[Idle EXCEPT !.kind = kd].after
  BY DEF Idle, LaneRecords, Verdicts
<1>3. QED
  BY <1>1, <1>2 DEF LanesInit, LaneTypes, Verdicts, HalfGiven, WriterKnown, Between, HalfOf, Is

\* The verdict that a file shows is that of its kind's last row, unless two wrote one at
\* the same time or a writer died between (artifacts.py: _write; lanes.py).
THEOREM VerdictFilesAgree == LanesSpec => []VerdictsAgree
<1>1. LanesInit => LaneTypes /\ HalfGiven /\ WriterKnown
  BY LanesStart
<1>2. TypeOK /\ LaneTypes /\ HalfGiven /\ WriterKnown /\ [LanesNext]_<<vars, laneVars>>
      => LaneTypes' /\ HalfGiven' /\ WriterKnown'
  BY LaneTypesStep, WriterStep
<1>3. WriterKnown => VerdictsAgree
  BY DEF WriterKnown, VerdictsAgree
<1>4. QED
  BY <1>1, <1>2, <1>3, CommandTypes, PTL DEF LanesSpec

-----------------------------------------------------------------------------
(* What a review saw.  It stays on disk, and once the command is over      *)
(* nothing that a review reads changes.                                    *)

\* The part of a verdict's sources that a prompt could have shown.
Shown(r) == {a \in r.listed : a[1] \in PromptKind}

SawAll ==
  \A l \in Procs :
    /\ lane[l].step = "idle" => ~lane[l].after
    /\ lane[l].after => ended # "no"
    /\ lane[l].after /\ lane[l].step \in {"lookup", "ask", "file"} => lane[l].saw = Reviewable
    /\ lane[l].after /\ lane[l].step = "file" => Shown(lane[l]) = Reviewable
    /\ lane[l].step \in {"lookup", "ask"} => lane[l].saw \subseteq Reviewable
    /\ lane[l].step = "file" /\ lane[l].kind = "review" => lane[l].saw \subseteq lane[l].listed

\* The sources of a verdict hold all that a prompt would show at that moment, and of its
\* kinds nothing else.
LEMMA SourcesHoldPrompt == {a \in SourcesNow : a[1] \in PromptKind} = Reviewable
BY DEF SourcesNow, Files, FileKind, Kinds, PromptKind, Reviewable

\* What a prompt showed is there for good.
LEMMA ReviewableGrows ==
  ASSUME [LanesNext]_<<vars, laneVars>>
  PROVE  Reviewable \subseteq Reviewable'
<1>1. [Next]_vars
  BY CommandSteps
<1>2. artifacts \subseteq artifacts'
  <2>1. CASE StoreCall
    BY <2>1 DEF StoreCall, WriteEvent, SetRunStatus, SetTaskStatus, PutArtifact, InsertTasks
  <2>2. CASE Decide \/ Asked \/ Dies \/ UNCHANGED vars
    BY <2>2 DEF vars, store, Goto, Exit, Decide, Asked, Answer, Dies, From, ForEachTask, ConfigRaises, ConfigLoads,
       PlannerFails, PlannerRaises, PlannerPlans, GraphStored, RouteNext, PlanStored, AnnounceNext, PlanReturns,
       Unattended, ConfirmationRequired, Declined, NotAsked, NoAgents, RunBegins, BeforeTurnRaises, BeforeTurn, DryRun,
       Prompts, AgentReturns, NextTask, StopAtFailure, RunOver, AfterRun, AfterRunRaises
  <2>3. QED
    BY <1>1, <2>1, <2>2 DEF Next
<1>3. QED
  BY <1>2 DEF Reviewable

\* The command leaves the lanes' records alone.
LEMMA CommandLeavesLanes ==
  ASSUME Command
  PROVE  UNCHANGED <<lane, replies>>
BY DEF Command, CommandWritesFile, CommandPuts, CommandDies, laneVars

LEMMA SawStep ==
  ASSUME TypeOK, LaneTypes, SawAll, [LanesNext]_<<vars, laneVars>>
  PROVE  SawAll'
<1>1. CASE lane' = lane
  <2>1. ended # "no" => ended' # "no" /\ Reviewable' = Reviewable
    BY CommandSteps, EndedStays DEF vars, Reviewable
  <2>2. Reviewable \subseteq Reviewable'
    BY ReviewableGrows
  <2>3. QED
    BY <1>1, <2>1, <2>2 DEF SawAll, Shown
<1>2. ASSUME NEW l \in Procs, LaneStep(l), UNCHANGED vars
      PROVE  SawAll'
  <2>0. PICK r \in LaneRecords : Effect(l, r)
    BY <1>2, LaneEffect
  <2>1. ended' = ended /\ Reviewable' = Reviewable
    BY <1>2 DEF vars, Reviewable
  <2>2. /\ lane' = [lane EXCEPT ![l] = r] /\ r.kind = lane[l].kind
        /\ \/ r.step = "lookup" /\ r.after = (ended # "no") /\ r.saw = Reviewable
           \/ /\ lane[l].step \in {"lookup", "ask"} /\ r.step = "file"
              /\ r.after = lane[l].after /\ r.saw = lane[l].saw /\ r.listed = SourcesNow
           \/ lane[l].step = "lookup" /\ r.step = "ask" /\ r.after = lane[l].after /\ r.saw = lane[l].saw
           \/ lane[l].step = "idle" /\ r.step = "file" /\ r.after = lane[l].after /\ r.kind = "verify"
           \/ r.step = "row" /\ r.after = lane[l].after
           \/ r.step = "over" /\ ~r.after
    BY <1>2, <2>0 DEF Effect
  <2>3. /\ r.step # "idle" /\ (r.after => ended # "no")
        /\ r.after /\ r.step \in {"lookup", "ask", "file"} => r.saw = Reviewable
        /\ r.after /\ r.step = "file" => Shown(r) = Reviewable
    BY <2>2, SourcesHoldPrompt DEF SawAll, Shown
  <2>5. /\ r.step \in {"lookup", "ask"} => r.saw \subseteq Reviewable
        /\ r.step = "file" /\ r.kind = "review" => r.saw \subseteq r.listed
    BY <2>2, SourcesHoldPrompt DEF SawAll
  <2>4. QED
    BY <2>1, <2>2, <2>3, <2>5 DEF SawAll, LaneTypes, Shown
<1>3. QED
  BY <1>1, <1>2, CommandLeavesLanes DEF LanesNext, laneVars

\* What the reviewer was shown is among the sources that the verdict lists after the
\* answer, and once the command is over no other plan, patch or result is (lanes.py:
\* review_run, _artifact_paths).
THEOREM ReviewsListTheirSources == LanesSpec => []ReviewListsWhatItSaw
<1>1. LanesInit => LaneTypes /\ HalfGiven /\ WriterKnown /\ SawAll
  BY LanesStart DEF SawAll
<1>2. TypeOK /\ LaneTypes /\ HalfGiven /\ WriterKnown /\ SawAll /\ [LanesNext]_<<vars, laneVars>>
      => LaneTypes' /\ HalfGiven' /\ WriterKnown' /\ SawAll'
  BY LaneTypesStep, WriterStep, SawStep
<1>3. SawAll => ReviewListsWhatItSaw
  <2>1. SUFFICES ASSUME SawAll, NEW l \in Procs, Is(l, "file"), lane[l].kind = "review"
                 PROVE  /\ lane[l].saw \subseteq lane[l].listed
                        /\ lane[l].after => {a \in lane[l].listed : a[1] \in PromptKind} = lane[l].saw
    BY DEF ReviewListsWhatItSaw
  <2>2. QED
    BY <2>1 DEF SawAll, Shown, Is
<1>4. QED
  BY <1>1, <1>2, <1>3, CommandTypes, PTL DEF LanesSpec

-----------------------------------------------------------------------------
(* A repeated review.  A review that is over has left its answer in the    *)
(* cache, and a later one looks there first.                               *)

AnswersKept ==
  \A l \in Procs :
    /\ lane[l].step \in {"idle", "lookup", "ask"} => lane[l].reply = "none"
    /\ lane[l].step = "over" /\ lane[l].reply # "none" => ended # "no"
    /\ (lane[l].after \/ lane[l].step = "over") /\ lane[l].reply # "none" => <<Reviewable, lane[l].reply>> \in replies
    /\ \A m \in lane[l].behind : lane[m].step = "over"
    /\ lane[l].behind # {} => lane[l].step \in {"lookup", "ask", "file"}

LEMMA AnswersStep ==
  ASSUME TypeOK, LaneTypes, SawAll, AnswersKept, [LanesNext]_<<vars, laneVars>>
  PROVE  AnswersKept'
<1>1. CASE lane' = lane /\ replies' = replies
  <2>1. ended # "no" => ended' # "no" /\ Reviewable' = Reviewable
    BY CommandSteps, EndedStays DEF vars, Reviewable
  <2>2. QED
    BY <1>1, <2>1 DEF AnswersKept, SawAll
<1>2. ASSUME NEW l \in Procs, LaneStep(l), UNCHANGED vars
      PROVE  AnswersKept'
  <2>0. PICK r \in LaneRecords : Effect(l, r)
    BY <1>2, LaneEffect
  <2>1. ended' = ended /\ Reviewable' = Reviewable
    BY <1>2 DEF vars, Reviewable
  <2>2. /\ lane' = [lane EXCEPT ![l] = r]
        /\ \/ lane[l].step = "idle" /\ r.step = "lookup" /\ r.behind = Over /\ r.reply = lane[l].reply
           \/ /\ lane[l].step \in {"lookup", "ask"} /\ r.step = "file" /\ r.behind = lane[l].behind
              /\ r.after = lane[l].after /\ <<lane[l].saw, r.reply>> \in replies'
           \/ lane[l].step = "lookup" /\ r.step = "ask" /\ r.behind = lane[l].behind /\ r.reply = lane[l].reply
           \/ lane[l].step = "idle" /\ r.step = "file" /\ r.behind = lane[l].behind /\ r.reply = lane[l].reply
           \/ /\ lane[l].step \in {"lookup", "ask", "file", "row"} /\ r.step \in {"row", "over"} /\ r.behind = {}
              /\ r.reply = IF lane[l].after THEN lane[l].reply ELSE "none"
    BY <1>2, <2>0 DEF Effect, Stored
  <2>3. replies \subseteq replies'
    BY <1>2 DEF LaneStep, ReviewPrompt, ReviewAgain, ReviewAsks, ReviewAnswered, Checks, WriteFile, PutRow, Stops
  <2>4. \A m \in Over : m # l
    BY <2>2 DEF Over, Is
  <2>5. /\ r.step \in {"idle", "lookup", "ask"} => r.reply = "none"
        /\ r.step = "over" /\ r.reply # "none" => ended # "no"
    BY <2>2 DEF AnswersKept, SawAll
  <2>6. (r.after \/ r.step = "over") /\ r.reply # "none" => <<Reviewable, r.reply>> \in replies'
    <3>1. CASE lane[l].step \in {"lookup", "ask"} /\ r.step = "file"
      BY <2>2, <3>1 DEF SawAll
    <3>2. CASE r.step \in {"row", "over"}
      BY <2>2, <2>3, <3>2 DEF AnswersKept
    <3>3. QED
      BY <2>2, <2>5, <3>1, <3>2 DEF AnswersKept
  <2>7. /\ r.behind # {} => r.step \in {"lookup", "ask", "file"}
        /\ \A m \in r.behind : m # l /\ lane[m].step = "over"
    <3>1. \/ r.step = "lookup" /\ r.behind = Over
          \/ r.step \in {"ask", "file"} /\ r.behind = lane[l].behind
          \/ r.behind = {}
      BY <2>2
    <3>2. \A m \in Over : lane[m].step = "over"
      BY DEF Over, Is
    <3>3. \A m \in lane[l].behind : m # l /\ lane[m].step = "over"
      BY DEF AnswersKept
    <3>4. QED
      BY <2>4, <3>1, <3>2, <3>3
  <2>8. QED
    BY <2>1, <2>2, <2>3, <2>5, <2>6, <2>7 DEF AnswersKept, LaneTypes
<1>3. QED
  BY <1>1, <1>2, CommandLeavesLanes DEF LanesNext, laneVars

\* The answers in the cache, while only one review or two have started: none before the
\* first has its own, and only that one until the second is made, which finds it.
OnlyStarted(S) == \A n \in Procs \ S : lane[n].step = "idle"

FirstAnswer ==
  \A m \in Procs : OnlyStarted({m}) =>
    /\ lane[m].step \in {"idle", "lookup", "ask"} => replies = {}
    /\ (lane[m].after \/ lane[m].step = "over") /\ lane[m].reply # "none"
         => replies \subseteq {<<Reviewable, lane[m].reply>>}

SecondAnswer ==
  \A l, m \in Procs : OnlyStarted({l, m}) /\ m \in lane[l].behind /\ lane[m].reply # "none" =>
    /\ lane[l].after /\ replies \subseteq {<<Reviewable, lane[m].reply>>}
    /\ lane[l].step # "ask"
    /\ lane[l].step = "file" => lane[l].reply = lane[m].reply

\* At first there is no answer.
LEMMA AnswersStart ==
  ASSUME LanesInit
  PROVE  AnswersKept /\ FirstAnswer /\ SecondAnswer
<1>1. PICK kd \in Kinds : lane = [l \in Procs |-> [Idle EXCEPT !.kind = kd]]
  BY DEF LanesInit
<1>2. \A l \in Procs : lane[l].step = "idle" /\ lane[l].reply = "none" /\ lane[l].behind = {} /\ ~lane[l].after
  BY <1>1 DEF Idle
<1>3. QED
  BY <1>2 DEF LanesInit, AnswersKept, FirstAnswer, SecondAnswer

\* Once the command is over a prompt is always the same.
LEMMA PromptStays ==
  ASSUME [LanesNext]_<<vars, laneVars>>, ended # "no"
  PROVE  ended' # "no" /\ Reviewable' = Reviewable
BY CommandSteps, EndedStays DEF vars, Reviewable

LEMMA FirstStep ==
  ASSUME TypeOK, LaneTypes, SawAll, AnswersKept, FirstAnswer, [LanesNext]_<<vars, laneVars>>
  PROVE  FirstAnswer'
<1>1. CASE lane' = lane /\ replies' = replies
  BY <1>1, PromptStays DEF FirstAnswer, OnlyStarted, SawAll, AnswersKept
<1>2. ASSUME NEW l \in Procs, LaneStep(l), UNCHANGED vars
      PROVE  FirstAnswer'
  <2>0. PICK r \in LaneRecords : Effect(l, r)
    BY <1>2, LaneEffect
  <2>1. Reviewable' = Reviewable
    BY <1>2 DEF vars, Reviewable
  <2>2. /\ lane' = [lane EXCEPT ![l] = r] /\ r.step # "idle"
        /\ \/ lane[l].step = "idle" /\ r.step = "lookup" /\ replies' = replies
           \/ /\ lane[l].step = "lookup" /\ r.step = "file" /\ r.reply \in Stored(l) /\ replies' = replies
           \/ /\ lane[l].step = "ask" /\ r.step = "file" /\ r.after = lane[l].after
              /\ replies' = replies \cup {<<lane[l].saw, r.reply>>}
           \/ lane[l].step = "lookup" /\ r.step = "ask" /\ replies' = replies
           \/ lane[l].step = "idle" /\ r.step = "file" /\ r.reply = lane[l].reply /\ replies' = replies
           \/ /\ lane[l].step \in {"lookup", "ask", "file", "row"} /\ r.step \in {"row", "over"} /\ replies' = replies
              /\ r.reply = IF lane[l].after THEN lane[l].reply ELSE "none"
    BY <1>2, <2>0 DEF Effect, ReviewPrompt, ReviewAsks, Checks, WriteFile, PutRow, Stops
  <2>3. SUFFICES ASSUME NEW m \in Procs, OnlyStarted({m})'
                 PROVE  /\ lane'[m].step \in {"idle", "lookup", "ask"} => replies' = {}
                        /\ (lane'[m].after \/ lane'[m].step = "over") /\ lane'[m].reply # "none"
                             => replies' \subseteq {<<Reviewable, lane'[m].reply>>}
    BY <2>1 DEF FirstAnswer
  <2>4. m = l /\ lane'[l] = r /\ OnlyStarted({l})
    BY <2>2, <2>3 DEF OnlyStarted, LaneTypes
  <2>5. CASE lane[l].step \in {"idle", "lookup", "ask"}
    <3>1. replies = {} /\ lane[l].reply = "none"
      BY <2>4, <2>5 DEF FirstAnswer, AnswersKept
    <3>2. lane[l].after /\ lane[l].step = "ask" => lane[l].saw = Reviewable
      BY DEF SawAll
    <3>3. Stored(l) = {}
      BY <3>1 DEF Stored
    <3>4. QED
      BY <2>2, <2>4, <3>1, <3>2, <3>3
  <2>6. CASE lane[l].step \notin {"idle", "lookup", "ask"}
    BY <2>2, <2>4, <2>6 DEF FirstAnswer
  <2>7. QED
    BY <2>5, <2>6
<1>3. QED
  BY <1>1, <1>2, CommandLeavesLanes DEF LanesNext, laneVars

LEMMA SecondStep ==
  ASSUME TypeOK, LaneTypes, SawAll, AnswersKept, FirstAnswer, SecondAnswer, [LanesNext]_<<vars, laneVars>>
  PROVE  SecondAnswer'
<1>1. CASE lane' = lane /\ replies' = replies
  BY <1>1, PromptStays DEF SecondAnswer, OnlyStarted, SawAll, AnswersKept
<1>2. ASSUME NEW p \in Procs, LaneStep(p), UNCHANGED vars
      PROVE  SecondAnswer'
  <2>0. PICK r \in LaneRecords : Effect(p, r)
    BY <1>2, LaneEffect
  <2>1. Reviewable' = Reviewable
    BY <1>2 DEF vars, Reviewable
  <2>2. /\ lane' = [lane EXCEPT ![p] = r] /\ r.step # "idle" /\ lane[p].step # "over"
        /\ \/ /\ lane[p].step = "idle" /\ r.step = "lookup" /\ r.behind = Over /\ r.after = (ended # "no")
              /\ replies' = replies
           \/ /\ lane[p].step = "lookup" /\ r.step = "file" /\ r.reply \in Stored(p) /\ replies' = replies
              /\ r.after = lane[p].after /\ r.behind = lane[p].behind
           \/ /\ lane[p].step = "ask" /\ r.step = "file" /\ r.behind = lane[p].behind
           \/ /\ lane[p].step = "lookup" /\ r.step = "ask" /\ replies' = replies /\ ReviewAsks(p)
              /\ r.behind = lane[p].behind
           \/ lane[p].step = "idle" /\ r.behind = lane[p].behind
           \/ r.behind = {}
    BY <1>2, <2>0 DEF Effect, ReviewPrompt, ReviewAsks, Checks
  <2>3. SUFFICES ASSUME NEW l \in Procs, NEW m \in Procs, OnlyStarted({l, m})', m \in lane'[l].behind,
                        lane'[m].reply # "none"
                 PROVE  /\ lane'[l].after /\ replies' \subseteq {<<Reviewable, lane'[m].reply>>}
                        /\ lane'[l].step # "ask"
                        /\ lane'[l].step = "file" => lane'[l].reply = lane'[m].reply
    BY <2>1 DEF SecondAnswer
  <2>4. lane'[m].step = "over" /\ m # l
    BY AnswersStep, <2>3 DEF AnswersKept
  <2>5. p \in {l, m} /\ OnlyStarted({l, m})
    BY <2>2, <2>3 DEF OnlyStarted, LaneTypes
  <2>6. CASE p = m
    <3>1. lane'[l] = lane[l]
      BY <2>2, <2>4, <2>6 DEF LaneTypes
    <3>2. lane[m].step = "over"
      BY <2>3, <3>1 DEF AnswersKept
    <3>3. QED
      BY <2>2, <2>6, <3>2
  <2>7. CASE p = l
    <3>1. lane'[l] = r /\ lane'[m] = lane[m] /\ lane[m].step = "over" /\ lane[m].reply # "none"
      BY <2>2, <2>3, <2>4, <2>7 DEF LaneTypes
    <3>2. CASE /\ lane[l].step = "idle" /\ r.step = "lookup" /\ r.behind = Over
               /\ r.after = (ended # "no") /\ replies' = replies
      <4>1. OnlyStarted({m})
        BY <2>5, <3>2 DEF OnlyStarted
      <4>2. replies \subseteq {<<Reviewable, lane[m].reply>>}
        BY <3>1, <4>1 DEF FirstAnswer
      <4>3. ended # "no"
        BY <3>1 DEF AnswersKept
      <4>4. QED
        BY <3>1, <3>2, <4>2, <4>3
    <3>3. CASE m \in lane[l].behind
      <4>1. /\ lane[l].after /\ replies \subseteq {<<Reviewable, lane[m].reply>>} /\ lane[l].step # "ask"
        BY <2>5, <3>1, <3>3 DEF SecondAnswer
      <4>2. lane[l].step \in {"lookup", "file"} /\ (lane[l].step = "lookup" => lane[l].saw = Reviewable)
        BY <3>3, <4>1 DEF AnswersKept, SawAll
      <4>3. <<Reviewable, lane[m].reply>> \in replies /\ lane[m].reply \in Replies
        BY <3>1 DEF AnswersKept, LaneTypes, LaneRecords
      <4>4. lane[l].step = "lookup" => Stored(l) = {lane[m].reply}
        BY <4>1, <4>2, <4>3 DEF Stored
      <4>5. QED
        BY <2>2, <2>3, <2>7, <3>1, <4>1, <4>2, <4>4 DEF ReviewAsks
    <3>4. QED
      BY <2>2, <2>3, <2>7, <3>1, <3>2, <3>3 DEF AnswersKept
  <2>8. QED
    BY <2>5, <2>6, <2>7
<1>3. QED
  BY <1>1, <1>2, CommandLeavesLanes DEF LanesNext, laneVars

\* A review repeated after the command and the first review were over judges the answer
\* the first one got (lanes.py: review_run; providers.py: CachedReplayProvider).
THEOREM ReviewsRepeat == LanesSpec => []ReviewRepeats
<1>. DEFINE Inv == /\ LaneTypes /\ HalfGiven /\ WriterKnown /\ SawAll
                   /\ AnswersKept /\ FirstAnswer /\ SecondAnswer
<1>1. LanesInit => Inv
  BY LanesStart, AnswersStart DEF SawAll
<1>2. TypeOK /\ Inv /\ [LanesNext]_<<vars, laneVars>> => Inv'
  BY LaneTypesStep, WriterStep, SawStep, AnswersStep, FirstStep, SecondStep
<1>3. Inv => ReviewRepeats
  <2>1. SUFFICES ASSUME Inv, NEW l \in Procs, NEW m \in Procs, Is(l, "file"), m \in lane[l].behind,
                        lane[m].reply # "none", \A n \in Procs \ {l, m} : Is(n, "idle")
                 PROVE  lane[l].reply = lane[m].reply
    BY DEF ReviewRepeats
  <2>2. OnlyStarted({l, m})
    BY <2>1 DEF OnlyStarted, Is
  <2>3. QED
    BY <2>1, <2>2 DEF SecondAnswer, Is
<1>4. QED
  BY <1>1, <1>2, <1>3, CommandTypes, PTL DEF LanesSpec
=============================================================================
