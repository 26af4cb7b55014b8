---------------------------- MODULE Orchestrator ----------------------------
(***************************************************************************)
(* One invocation of `poor-cli plan` or `poor-cli run`                     *)
(* (src/src/poor_cli/orchestrator.py, cli.py:_run, tui.py:_handle_run): it *)
(* creates a run, plans it, obtains or is refused the confirmation, and    *)
(* executes its tasks one after the other.                                 *)
(*                                                                         *)
(* Between two decisions the code makes a fixed sequence of store calls.   *)
(* Script(phase, t) is that sequence; the process makes one call per step, *)
(* so that it may die between any two of them, and takes a decision when   *)
(* the script of its phase is at its end.  A store call is atomic here:    *)
(* RunStore has its own steps.                                             *)
(***************************************************************************)
EXTENDS Naturals, Sequences

CONSTANTS
  MaxTasks,     \* bound on the tasks of a plan
  Modes         \* how the command may be invoked, a subset of AllModes

\* `plan`; `run --dry-run` or the TUI's default; `run --yes`; `run` with a
\* terminal to ask on; `run` without one.
AllModes == {"plan", "dry", "yes", "ask", "pipe"}

ASSUME OrchestratorAssumption == MaxTasks \in Nat \ {0} /\ Modes \subseteq AllModes

VARIABLES
  mode,       \* how this command was invoked
  consent,    \* the answer to the confirmation question
  status,     \* runs.status
  task,       \* tasks.status of the task with each ordinal
  events,     \* the run's events, <<type, ordinal or 0>>, in rowid order
  artifacts,  \* the run's artifacts, <<kind, ordinal or 0>>
  count,      \* number of tasks of the plan
  phase, k,   \* where the process is: the next call of the phase's script
  cur,        \* ordinal of the task at hand
  ended       \* how the process ended

store == <<status, task, events, artifacts>>
vars  == <<mode, consent, status, task, events, artifacts, count, phase, k, cur, ended>>

Lifecycle == INSTANCE RunLifecycle

Tasks == 1..MaxTasks

Init ==
  /\ mode \in Modes /\ consent = "none"
  /\ status = "absent" /\ task = [t \in Tasks |-> "none"]
  /\ events = <<>> /\ artifacts = {}
  /\ count = 0 /\ phase = "create" /\ k = 1 /\ cur = 1 /\ ended = "no"

-----------------------------------------------------------------------------
(* The store calls, <<what, name, ordinal>>.                               *)

EventType ==
  {"run.created", "route.selected", "repo.scanned", "agents.detected", "planner.failed",
   "graph.context.created", "route.policy.selected", "plan.created", "task.created",
   "context.created", "task.assigned", "task.skipped", "agent.input.created", "agent.started",
   "agent.completed", "agent.failed", "handoff.created", "task.completed", "task.failed",
   "run.confirmation_required", "run.cancelled", "run.completed", "run.failed"}

\* An artifact's kind, with the verdict for the review and the verification.
ArtifactKind ==
  {"planner.error", "graph.context", "planner.prompt", "planner.response", "plan.json",
   "artifact.plan.json", "artifact.plan.md", "context.packet", "agent.input", "agent.result",
   "worker.changed_files", "worker.patch", "worker.result", "handoff.packet",
   "review.accepted", "review.rejected", "verify.pass", "verify.fail"}

Ordinals == Tasks \cup {0}      \* 0 for what is about the run

StoreCalls ==
  ({"event"} \X EventType \X Ordinals) \cup ({"put"} \X ArtifactKind \X Ordinals)
    \cup ({"status"} \X Lifecycle!RunStatus \X {0}) \cup ({"task"} \X Lifecycle!TaskStatus \X Tasks)
    \cup {<<"insert", "tasks", 0>>}

Ev(type)      == <<"event", type, 0>>
TaskEv(t, type)  == <<"event", type, t>>
Status(s)     == <<"status", s, 0>>
TaskStatus(t, s) == <<"task", s, t>>
Put(kind)     == <<"put", kind, 0>>
TaskPut(t, kind) == <<"put", kind, t>>

\* After the agent returned: the result and the worker's artifacts, the agent's
\* event, the handoff, then the task's row and its events.
SettledEventFirst(t, agentEvent, s, taskEvent) ==
  << TaskPut(t, "agent.result"), TaskPut(t, "worker.changed_files"), TaskPut(t, "worker.patch"),
     TaskPut(t, "worker.result"), TaskEv(t, agentEvent), TaskPut(t, "handoff.packet"),
     TaskEv(t, "handoff.created"), TaskEv(t, taskEvent), TaskStatus(t, s) >>

SettledNoHandoff(t, agentEvent, s, taskEvent) ==
  << TaskPut(t, "agent.result"), TaskPut(t, "worker.changed_files"), TaskPut(t, "worker.patch"),
     TaskPut(t, "worker.result"), TaskEv(t, agentEvent), TaskStatus(t, s), TaskEv(t, taskEvent) >>

Settled(t, agentEvent, s, taskEvent) ==
  << TaskPut(t, "agent.result"), TaskPut(t, "worker.changed_files"), TaskPut(t, "worker.patch"),
     TaskPut(t, "worker.result"), TaskEv(t, agentEvent), TaskPut(t, "handoff.packet"),
     TaskStatus(t, s), TaskEv(t, "handoff.created"), TaskEv(t, taskEvent) >>

\* The end of run(): the row, both verdicts, the event.
VerdictNoEvent(s, review, verify, runEvent) == << Status(s), Put(review), Put(verify) >>

VerdictRowLast(s, review, verify, runEvent) ==
  << Put(review), Put(verify), Ev(runEvent), Status(s) >>

Verdict(s, review, verify, runEvent) ==
  << Status(s), Put(review), Put(verify), Ev(runEvent) >>

Phases == {"create", "scan", "planfail", "graph", "route", "plan", "announce", "ready", "await",
           "cancel", "begin", "turn", "assign", "skip", "prompt", "won", "lost", "threw",
           "complete", "fail"}

Script(ph, t) ==
  CASE ph = "create"   -> << Status("created"), Ev("run.created") >>
    [] ph = "scan"     -> << Ev("route.selected"), Ev("repo.scanned"), Ev("agents.detected") >>
    [] ph = "planfail" -> << Put("planner.error"), Ev("planner.failed"), Status("failed"), Ev("run.failed") >>
    [] ph = "graph"    -> << Put("graph.context"), Ev("graph.context.created") >>
    [] ph = "route"    -> << TaskEv(t, "route.policy.selected") >>
    [] ph = "plan"     -> << Put("planner.prompt"), Put("planner.response"), Put("plan.json"),
                             Put("artifact.plan.json"), Put("artifact.plan.md"),
                             <<"insert", "tasks", 0>>, Ev("plan.created") >>
    [] ph = "announce" -> << TaskEv(t, "task.created") >>
    [] ph = "ready"    -> << Status("planned") >>
    [] ph = "await"    -> << Status("awaiting_confirmation"), Ev("run.confirmation_required") >>
    [] ph = "cancel"   -> << Status("cancelled"), Ev("run.cancelled") >>
    [] ph = "begin"    -> << Status("running") >>
    [] ph = "assign"   -> << TaskPut(t, "context.packet"), TaskStatus(t, "assigned"),
                             TaskEv(t, "context.created"), TaskEv(t, "task.assigned") >>
    [] ph = "skip"     -> << TaskStatus(t, "skipped"), TaskEv(t, "task.skipped") >>
    [] ph = "prompt"   -> << TaskPut(t, "agent.input"), TaskEv(t, "agent.input.created"), TaskEv(t, "agent.started") >>
    [] ph = "won"      -> Settled(t, "agent.completed", "completed", "task.completed")
    [] ph = "lost"     -> Settled(t, "agent.completed", "failed", "task.failed")
    [] ph = "threw"    -> Settled(t, "agent.failed", "failed", "task.failed")
    [] ph = "complete" -> Verdict("completed", "review.accepted", "verify.pass", "run.completed")
    [] ph = "fail"     -> Verdict("failed", "review.rejected", "verify.fail", "run.failed")
    [] OTHER           -> << >>      \* "turn" writes nothing

Call     == Script(phase, cur)[k]
InScript == k <= Len(Script(phase, cur))
At(ph)   == ended = "no" /\ phase = ph /\ k > Len(Script(ph, cur))

\* One store call: an event row, the run's row, a task's row, an artifact, or
\* the rows of the plan's tasks, all pending.  (The agents' rows and the run's
\* plan_id, which nothing here reads, are left out.)
WriteEvent ==
  /\ Call[1] = "event" /\ events' = Append(events, <<Call[2], Call[3]>>)
  /\ UNCHANGED <<status, task, artifacts>>

SetRunStatus ==
  /\ Call[1] = "status" /\ status' = Call[2]
  /\ UNCHANGED <<task, events, artifacts>>

SetTaskStatus ==
  /\ Call[1] = "task" /\ task' = [task EXCEPT ![Call[3]] = Call[2]]
  /\ UNCHANGED <<status, events, artifacts>>

PutArtifact ==
  /\ Call[1] = "put" /\ artifacts' = artifacts \cup {<<Call[2], Call[3]>>}
  /\ UNCHANGED <<status, task, events>>

InsertTasks ==
  /\ Call[1] = "insert"
  /\ task' = [t \in Tasks |-> IF t <= count THEN "pending" ELSE "none"]
  /\ UNCHANGED <<status, events, artifacts>>

StoreCall ==
  /\ ended = "no" /\ InScript
  /\ (WriteEvent \/ SetRunStatus \/ SetTaskStatus \/ PutArtifact \/ InsertTasks)
  /\ k' = k + 1
  /\ UNCHANGED <<mode, consent, count, phase, cur, ended>>

-----------------------------------------------------------------------------
(* Decisions, each at the end of a script.                                 *)

Goto(ph)  == phase' = ph /\ k' = 1 /\ UNCHANGED <<mode, store, ended>>
Exit(how) == ended' = how /\ UNCHANGED <<mode, consent, store, count, phase, k, cur>>

From(ph, next) == At(ph) /\ Goto(next) /\ UNCHANGED <<consent, count, cur>>

\* _create_run: an invalid configuration raises after the run was recorded.
ConfigRaises == At("create") /\ Exit("raised")
ConfigLoads  == From("create", "scan")

\* plan(): the planner raises, or returns a plan of at least one task, with or
\* without a graph context.
PlannerFails  == From("scan", "planfail")
PlannerRaises == At("planfail") /\ Exit("raised")
PlannerPlans ==
  /\ At("scan")
  /\ \E n \in Tasks : count' = n
  /\ (Goto("graph") \/ Goto("route"))
  /\ UNCHANGED <<consent, cur>>
GraphStored == From("graph", "route")

\* The loops over the plan's tasks, before and after it is stored.
ForEachTask(ph, next) ==
  /\ At(ph)
  /\ \/ cur < count /\ cur' = cur + 1 /\ Goto(ph)
     \/ cur = count /\ cur' = 1 /\ Goto(next)
  /\ UNCHANGED <<consent, count>>

RouteNext    == ForEachTask("route", "plan")
PlanStored   == From("plan", "announce")
AnnounceNext == ForEachTask("announce", "ready")

\* `plan` returns here; cli._run and tui._handle_run go on.
PlanReturns == mode = "plan" /\ At("ready") /\ Exit("returned")

Unattended           == mode = "pipe" /\ From("ready", "await")
ConfirmationRequired == At("await") /\ Exit("raised")

AnswerUnread(a) ==
  /\ mode = "ask" /\ At("ready") /\ consent = "none"
  /\ consent' = a /\ Goto("begin")
  /\ UNCHANGED <<count, cur>>

Answer(a) ==
  /\ mode = "ask" /\ At("ready") /\ consent = "none"
  /\ consent' = a /\ Goto(IF a = "yes" THEN "begin" ELSE "cancel")
  /\ UNCHANGED <<count, cur>>

Declined == At("cancel") /\ Exit("returned")
NotAsked == mode \in {"dry", "yes"} /\ From("ready", "begin")

\* run(): no selected agent is available, before anything is written.
NoAgents  == ended = "no" /\ phase = "begin" /\ k = 1 /\ Exit("raised")
RunBegins == From("begin", "turn")

\* hooks.before_turn may raise, and nothing catches it.
BeforeTurnRaises == At("turn") /\ Exit("raised")
BeforeTurn       == From("turn", "assign")

DryRunAlsoAsks == mode = "dry" /\ consent = "yes" /\ From("assign", "skip")

DryRun  == mode = "dry" /\ From("assign", "skip")
Prompts == mode # "dry" /\ From("assign", "prompt")

\* runner.run returns 0, returns another code, or raises and is caught.  What the
\* agent itself records while it runs belongs to the native runner.
AgentReturns == \E how \in {"won", "lost", "threw"} : From("prompt", how)

NextTask ==
  /\ (At("won") \/ At("skip"))
  /\ \/ cur < count /\ cur' = cur + 1 /\ Goto("turn")
     \/ cur = count /\ cur' = cur /\ Goto("complete")
  /\ UNCHANGED <<consent, count>>

FailureIgnored ==
  /\ (At("lost") \/ At("threw"))
  /\ \/ cur < count /\ cur' = cur + 1 /\ Goto("turn")
     \/ cur = count /\ cur' = cur /\ Goto("fail")
  /\ UNCHANGED <<consent, count>>

StopAtFailure == From("lost", "fail") \/ From("threw", "fail")

\* hooks.after_run may raise too, after everything was written.
RunOver        == At("complete") \/ At("fail")
AfterRun       == RunOver /\ Exit("returned")
AfterRunRaises == RunOver /\ Exit("raised")

\* The process is killed, or an operation that nothing catches raises.
Dies == ended = "no" /\ Exit("died")

Decide ==
  \/ ConfigRaises \/ ConfigLoads \/ PlannerFails \/ PlannerRaises \/ PlannerPlans
  \/ GraphStored \/ RouteNext \/ PlanStored \/ AnnounceNext
  \/ PlanReturns \/ Unattended \/ ConfirmationRequired \/ Declined \/ NotAsked
  \/ NoAgents \/ RunBegins \/ BeforeTurnRaises \/ BeforeTurn \/ DryRun \/ Prompts
  \/ AgentReturns \/ NextTask \/ StopAtFailure \/ AfterRun \/ AfterRunRaises

Asked == \E a \in {"yes", "no"} : Answer(a)

Next == StoreCall \/ Decide \/ Asked \/ Dies

Spec == Init /\ [][Next]_vars

\* The process is scheduled, and planner and agents return: every subprocess and
\* every provider call has a timeout.  The user need not answer.
FairSpec == Spec /\ WF_vars(StoreCall \/ Decide)

-----------------------------------------------------------------------------
Recorded(type, t) == \E i \in 1..Len(events) : events[i] = <<type, t>>
Concluded == \E type \in {"run.completed", "run.failed", "run.cancelled"} : Recorded(type, 0)

\* Every variable keeps to its values, and the process inside its scripts.
TypeOK ==
  /\ mode \in Modes /\ consent \in {"none", "yes", "no"}
  /\ status \in Lifecycle!RunStatus /\ task \in [Tasks -> Lifecycle!TaskStatus]
  /\ events \in Seq(EventType \X Ordinals) /\ artifacts \subseteq ArtifactKind \X Ordinals
  /\ count \in 0..MaxTasks /\ cur \in Tasks
  /\ phase \in Phases /\ k \in 1..(Len(Script(phase, cur)) + 1)
  /\ ended \in {"no", "returned", "raised", "died"}

\* What the rows show is always a behaviour of RunLifecycle: tasks one by one in
\* order, none after a failure, no way out of an ended run, whatever is raised
\* and wherever the process dies.
ImplementsLifecycle == Lifecycle!Spec

\* So whatever was raised and wherever the process died, the rows say that no task
\* was started after a failure or out of order, that a run's outcome is that of its
\* tasks, and that nothing moved before the run began or after it ended.
RowsSound == Lifecycle!InOrder /\ Lifecycle!OutcomeSound /\ Lifecycle!QuietOutside

\* No agent starts unless the command said --yes or the user answered yes; a dry
\* run starts none.
ConsentBeforeAgents ==
  (\E t \in Tasks : Recorded("agent.started", t)) => mode = "yes" \/ consent = "yes"

\* A settled task's row is backed by what settled it, wherever the process dies:
\* the prompt, the result, the patch and the handoff were put first, and the run's
\* terminal event has both verdicts behind it.
EvidenceBeforeOutcome ==
  /\ \A t \in Tasks : task[t] \in {"completed", "failed"} =>
       \A kind \in {"context.packet", "agent.input", "agent.result", "worker.patch", "handoff.packet"} :
         <<kind, t>> \in artifacts
  /\ Recorded("run.completed", 0) => {<<"review.accepted", 0>>, <<"verify.pass", 0>>} \subseteq artifacts
  /\ Recorded("run.failed", 0) =>
       \/ {<<"review.rejected", 0>>, <<"verify.fail", 0>>} \subseteq artifacts
       \/ <<"planner.error", 0>> \in artifacts

\* The run's terminal event is the last thing a command writes: no row, event or
\* artifact of the run changes after it.
TerminalEventIsLast == [][Concluded => UNCHANGED store]_vars

\* A command that returns leaves its run planned, cancelled by the user, or ended
\* with both a row and an event that say so; never created, running or awaiting.
ReturnedRunsAreSettled ==
  ended = "returned" =>
    \/ mode = "plan" /\ status = "planned"
    \/ consent = "no" /\ status = "cancelled" /\ Concluded
    \/ mode \in {"dry", "yes", "ask"} /\ status \in {"completed", "failed"} /\ Concluded

\* A running run does not run forever: the command ends, one way or another.
RunSettles == status = "running" ~> ended # "no"
=============================================================================
