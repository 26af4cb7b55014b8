# A formal model of poor-cli

TLA+ modules that model the parts of poor-cli in which something can go wrong
between two steps. Of v6 (`src/src/poor_cli`, the program that is built): the run
store and its file mirrors, the orchestrator and the lanes beside it, replay,
provider calls and their budget, the repository graph, the native runner, and the
MCP client. Of v5, which is preserved under `src/legacy/poor_cli`: background tasks
and agents, and scheduled automations. TLC checks the modules on small instances;
TLAPS proves most safety properties for every instance. Paths such as
`store.py` are under `src/src/poor_cli/`, unless they say `legacy`.

## The system

`poor-cli` is a command-line program. Each command is a process of its own; what
processes share is one directory, `.poor-cli/v6/`, with an SQLite database, a
content-addressed store (CAS), and a mirror directory for each run. There is no
server, and no lock beyond SQLite's.

| Component | State it keeps | Operations | What makes it correct |
|---|---|---|---|
| store (`store.py`) | tables runs, tasks, agents, events, artifacts; `cas/`; per run `meta.json`, `events.jsonl`, `cas/` | `create_run`, `set_run_status`, `set_run_plan`, `append_event`, `put_artifact`, `insert_*`, `set_task_status`, `list_*` | the mirrors agree with the tables, rows have their blobs, nothing is withdrawn |
| orchestrator (`orchestrator.py`, with `artifacts.py`) | rows and files of one run | `plan`, `run` | tasks in order, stop at the first failure, evidence before outcome, the row and the events tell one story |
| cli, tui (`cli.py`, `tui.py`) | none | `plan`, `run`, and the reporting commands | no agent starts without consent |
| replay (`replay.py`) | none | `replay_summary`, `replay_verify` | computes the rows from the events; accepts what the store wrote |
| hooks (`hooks.py`, `extensions.py`) | registered hooks | four callbacks | an exception leaves a run explainable |
| providers (`providers.py`) | responses, as artifacts | `call`, `call_many` | a stored response is never paid for again |
| cost (`cost.py`) | `budget/LEDGER.json`, budget events | `check_provider_request`, `record_provider_response` | limits hold, warnings are due and given |
| repo graph (`repo_graph.py`) | modules, symbol index, fingerprint, in memory | `build_index`, `refresh_if_stale`, the watcher, queries | queries answer for the files on disk |
| native runner (`native_runner.py`) | the transcript, in memory | `run` | ends within its caps; can be repeated from its records |
| tools (`tools/`) | results, as artifacts | `ToolDispatcher.call`, the built-in tools | a recorded result is returned and its effect not repeated |
| lanes (`lanes.py`) | verdict artifacts | `review_run`, `verify_run` | a verdict for every lane that started |
| MCP client (`mcp_client.py`) | a server process | `connect`, `_request`, `disconnect` | the answer to a request is its own; no process is left |
| background jobs (`legacy/.../task_manager.py`, `agent_runner.py`, `task_supervisor.py`) | one SQLite row per task or agent, worker processes | start, approve, cancel, prune, reconcile; the workers' own writes | nothing runs unapproved; a running row has a worker and ends; work is done once |
| automations (`legacy/.../automation_manager.py`) | one row per automation | create, enable, disable, run now, `run_due`, `serve_forever` | what is due is launched, once, at its schedule's next moment |
| planner, agents, adapters, config, route policy, graph context, sandbox, models | none, or configuration files | | functions and conversions, subprocesses and HTTP |

How they interact: `cli` and `tui` call the orchestrator, which calls planner,
agents and hooks and writes everything it decides through the store. The native
runner is one kind of agent: it calls providers and tools, which record to the
same run. `review-run`, `verify-run`, `replay` and a second `poor-cli` are other
processes on the same store, at any time. In v5, users' commands, servers that look for
due automations and the workers of tasks are processes that meet on one SQLite
database; an automation launches tasks.

What is hard here: several processes on one store without locks around
multi-step operations; a death between any two writes, since nothing resumes a
run; exceptions from hooks, configuration and planner that leave in the middle;
read-modify-write of the ledger; files that change while they are indexed; a server
that answers as it likes or not at all; rows that are read, decided upon and
written by several processes with nothing in between to hold them; clocks that are set back.

## Modules

| Module | Models | Role |
|---|---|---|
| `EventStream` | what the events of a run promise | abstract specification |
| `RunStore` | `store.py`, and `replay_verify` as a predicate | several processes, step by step, with deaths |
| `RunLifecycle` | the statuses of a run and its tasks | abstract specification |
| `Orchestrator` | `orchestrator.py`, `cli._run`, `tui._handle_run`, calls of `artifacts.py` and `hooks.py` | one command, store call by store call |
| `Replay` | `replay_summary` | what the last telling events of `Orchestrator` say |
| `Lanes` | `lanes.py`, `_write` of `artifacts.py` | reviews and verifications beside the command of `Orchestrator`, which it extends |
| `ProviderBudget` | `providers.py`, `cost.py` | several processes calling for one run |
| `RepoGraph` | `repo_graph.py`'s index, refresh and watcher | one graph beside a changing file system |
| `NativeRunner` | `native_runner.py`, `tools/dispatcher.py`, `normalize_tool_calls`, `CachedReplayProvider.call` | attempts at tasks, one after another, with records and deaths |
| `McpClient` | `mcp_client.py` | one use of a server that is free to do anything |
| `BackgroundJobs` | v5's `task_manager.py`, `task_supervisor.py`, `agent_runner.py` | commands and workers on one row |
| `Automations` | v5's `automation_manager.py` | servers and users on a table of schedules, and a clock |
| `MC*` | | definitions the configurations name |
| `*Proofs` | | theorems |

`RunStore` implements `EventStream` (property `ImplementsEventStream`, with the
set of a mirror file's lines as `mirrored`), and `Orchestrator` implements
`RunLifecycle` (`ImplementsLifecycle`, with the same variables).

### RunStore

A process has at most one operation under way (`job`), and its `step` is where it
is: `append` between the commit of an event and its line, `meta` between a row
and `meta.json`, and for `put_artifact` `exists`, `open`, `write`, `replace`,
`insert`, where `dir` tells whether it is writing the CAS or the run's mirror and
`fd` what its open descriptor refers to. A file is absent, torn (created or
truncated, not yet written) or whole. Descriptors follow renames
(`FollowRename`), as they do on POSIX: that is how one writer's rename publishes a file
another is still writing. SQLite transactions are atomic and durable. A death
(`Crash`) drops the operation and leaves the files.

`Owner` is the process that creates a run and sets its status, `Users` those that
append to it; the program never has two owners, and may have several users.

### Orchestrator and Replay

`Script(phase, t)` is the sequence of store calls the code makes between two
decisions. `StoreCall` makes the next one; a decision is an action of its own at
the end of a script, with the exceptions that may leave there; `Dies` may happen
anywhere. `mode` is how the command was invoked. `Replay` computes from `events`
what `replay_summary` would show at every moment. Neither the rows nor the events are always first: `plan.created` is
appended before the run's row says planned (`orchestrator.py:73`, `:87`), every later event after its row. So replay
may show a planned run whose row says created, and will for good if the process dies between the two; `ReplayBacked`
says what is in the store then, and `DifferInOne` that no more than this one status is between them.

### Lanes

A lane is a process that runs `review_run` or `verify_run` once, at any time after the
run was created. `LanesInit` starts `Orchestrator`; `Command` is its next-state
relation with the verdicts it puts split into the file (`half`) and the row, as the lanes'
are. A prompt is the set of artifacts it was made of, read in one
moment: the plan, the patches and the results (`PromptKind`). What the verdict then lists as its sources is every file of the
moment after the answer (`Files`: the other artifacts, the ledger and earlier verdicts too), so the two sets are never equal. `ReviewListsWhatItSaw`
says that nothing of the prompt is missing from the list, and, after the command's end, that the list has nothing of those kinds that
the prompt had not. `replies` is the response cache, keyed by the prompt. The lanes of a behaviour are of one
kind: the two kinds share no file, no row and no response. `raced` remembers which verdict
two have written at the same time, or one only half, since then file and row may differ.

### ProviderBudget

`team` is who calls on behalf of the run: one process alone, or several. `job[p]` holds the operation of a process: what is still to look up, the misses, and
the ledger it has loaded (`mine`). `ledger` is the last `LEDGER.json` written,
`entries` and `warnings` count budget events, `asked` and `spent` are what the
provider answered and charged, whether or not it was recorded. `call` is
`call_many` of one request. The limit in dollars is checked and recorded where the limit in
tokens is, and left out.

### RepoGraph

`modules` and `index` map each file to the version that was parsed; `print` is the
fingerprint. The thread that holds the lock is `job`; `Write` and `Delete` change files between
any two of its steps, except while `build_index` runs if `EditsDuringBuild` is
FALSE. A version stands for contents and signature together.

### NativeRunner

`job` is an attempt at a task, live or `replay_only`; its `step` is where it is in a turn: `turn`
(compaction), `lookup`, `ask`, `store`, and `call`, `run`, `record` for each call of the
response. `responses` and `results` are the artifacts `provider.response` and `tool.result` by
request: a request to the provider is the transcript, one to a tool its name and
arguments. A message is its role, the calls it makes or answers, and its length.
A reply is the calls the parser of its provider finds in it (`found`) and the messages that it adds to the transcript
(`shown`), which are not the same: `Normalises` drops calls without a name and repeated ones, and `_assistant_messages` adds
a message without calls for a shape it does not know (`candidates`, `tool_calls` at the top level, events), though
the answers follow. `TranscriptsSound` therefore speaks of whole exchanges (what a response said and the answers it got, `Exchange`), and
of an answer to every call that is shown; an answer whose call is not shown is right where the response on record called for it.
The replies of the instance have each of these shapes. That what is shown was found is assumed: the two functions read the same fields.
`executed` counts what really ran; `first` keeps how each task first finished.
Attempts follow one another, since a run has one owner: `run` makes one at each task, and
a caller of the class makes the others, as `tests/test_native_runner.py` does. An attempt ends `raised` where
the provider, a hook or an unknown tool's name raises. A full disk is a death, and the ledger that
refuses a request is the provider raising; `ProviderBudget` has the details.

What the model makes visible, and no document denies: a tool called again with the same
arguments answers from its record whatever has changed in between; compaction of a
transcript of at most six messages makes it longer, with its prompt twice; an answer may
be sent without its call, behind a cut or in a shape of the fallback (`WholeExchanges` says where); calls are the same
if their id and name are, so that of several calls of one function without ids, as Gemini's are, one is run and the others are dropped
without an answer; a call without a name that is shown has none either; an unknown tool's name ends every
later live attempt at the task too, because the response that called for it is recorded.

### McpClient

`step` is where the client is; `stdin` and `stdout` are the pipes, with a line abstracted to what it
is and the id it carries. The server takes requests and answers them in any order, sends
notifications and requests of its own, writes something that is no JSON, fills the pipe of its
standard error (`StderrRoom`), ignores SIGTERM (`stubborn`) or stops. The client is
the program's: it takes any line with its id for the answer, drops the others, and has one timeout, that of `disconnect`.

### BackgroundJobs

No operation of v5's task manager holds a lock from its read of a row to its write.
`code[a]` is the sequence of instructions a process has left, each of which is one read, one UPDATE, one
signal or one `Popen`; `Step` executes the first. `Prune` finds the row by any status and deletes it in a later
step, by its id: a running task's worker then works on without a row. A read that finds the row running and its
worker gone executes the reconciliation first and then reads again. A worker is `alive`, a
`zombie` until its parent reaps or leaves it, or `gone`. `disturbed` says that two
commands overlapped or one was killed half-way: the properties that only then may fail name it. A start that
failed and has still to record so counts as a command under way (`Busy`).

### Automations

An operation has the automations it selected in `todo` and what it read of each in `read`; creating
the task and updating the row are a step each. The clock ticks between any two
steps; `Utc` and `Wall` convert between a zone's wall clock, which may be set back (`fold`) or
forward (`gap`) once by `Shift` ticks, and time. `fired` and `twice` record launches, `overlapped` and `cut` what may excuse a second one.
Where a wall time comes twice, Python's fold tells the second from the first. `replace` keeps it, the sum with a
`timedelta` and a new `datetime` do not: `Steady` is a schedule to which that makes no difference.

## Runs

| Run | Shows | Bounds |
|---|---|---|
| `store_shared` | two processes on one run, one death: mirror sound, its gaps bounded, `meta.json` up to date, rows have blobs and torn blobs a writer, `EventStream` implemented | 2 events, 1 payload, 2 statuses |
| `store_two_runs` | a process per run, one shared payload, no death, fair: every event reaches the mirror, every row reads back, `replay --verify` accepts each run at rest | 2 events, 1 payload |
| `store_parallel_mirror` | *violated*: two writers leave a mirror that `replay --verify` refuses | 2 events |
| `orchestrator` | every way to invoke `plan` and `run`; lifecycle, consent, evidence, end; what replay tells is in the store and differs from the rows in one status at most | plans of up to 3 tasks |
| `lanes` | two reviews or two verifications beside the command, any of which may die, raise or time out: verdict files agree with rows, reviews list all they saw and repeat | 1 task, 2 lanes, 1 check, replies that accept or are no JSON |
| `budget` | one process or two, one request at a time, one death: calls and tokens within their limits, nothing paid twice, warnings due and given, the ledger follows the events | 3 requests, 2 calls, 3 tokens, answers of 1 to 3 tokens; 5 operations alone, 3 for two |
| `repo_graph` | a refresh beside edits: nothing taken for seen that was not parsed, an undisturbed refresh follows the disk, the watcher catches up | 2 files, 4 changes |
| `repo_graph_build` | *violated*: an edit during `build_index` is never seen | 1 change |
| `native` | live attempts and replays with raises and a death: replay reproduces, tools run once, transcripts are whole exchanges and answer what they show | 5 shapes of replies, 2 tasks, 2 tools, 3 attempts, 3 turns, 3 calls |
| `mcp` | answers are their requests' own, no server is left, the use ends unless the server blocks | 2 requests after `initialize`, 2 lines of chatter, 2 on standard error |
| `background_jobs` | a task or an agent, a command line and a server that give two commands, one death: approval comes first, running rows have workers and end (but for a server's unreaped child), work is done once, cancelled work stops | 2 commands, 1 death |
| `automations` | interval, daily and weekly schedules, a clock set back or forward, a server and a user, one failure: next runs are first, enabled rows are scheduled, moments launched once, what is due is launched | 3 ticks a day, 2 days a week, a change by 2 ticks at the third, 4 ticks, 1 command |

The bounds, by name, and why they are enough:

- `Procs`, `Runs`, `EventIds`, `Digests` (`RunStore`): the file protocol is per path
  and every race in it is between two writers; a third event shows order and
  gaps. `MaxCrashes`: one death beside a live process, two in a row for one.
- `MaxTasks` (`Orchestrator`): a first task, one in the middle, a last one.
- `MaxChecks`, `Replies`, `MaxTasks`, `Modes` (`Lanes`): two lanes and the command are the three
  writers there can be of a verdict; one task has every artifact a prompt is made of. A
  reply that rejects ends, its findings suppressed or not, in the verdict of one that accepts or in
  another one written over the same files; it is left to the theorems, which are for any `Replies`.
- `MaxCalls`, `MaxTokens`, `MaxUsage`, `Input`, `MaxWall`, `MaxBatch`, `MaxOps`,
  `MaxCrashes`, `MaxTime` (`ProviderBudget`): more operations than calls, one answer that
  crosses several thresholds, cached and live requests mixed. `MaxWall` is not a bound but the
  budget. `MaxOps` and `MaxTime` depend on the size of the team: what two processes can do to each other
  takes an operation of each and one afterwards; what one does in a row takes more.
- `MaxEdits` (`RepoGraph`): an edit in each step of a refresh, and one in the next.
- `Replies`, `MaxCalls`, `MaxAttempts`, `MaxCrashes` (`NativeRunner`): a reply of each shape; a first attempt, one that a death or a raise
  disturbs, and a replay; two calls in a response, so that a cap or a cut can fall
  between them. `MaxTurns`, `MaxToolCalls`, `MaxBytes` and `Window` are the program's 8, 32,
  80 000 bytes and 6 messages, made so small that each is reached, and compaction twice.
- `MaxRequests`, `MaxChatter`, `ServerIds`, `StderrRoom`, `MaxStderr` (`McpClient`): `initialize` and two
  requests, so that an answer can be late for one and early for another; one line on standard error
  fits its pipe and a second blocks.
- `MaxCommands`, `MaxDeaths` (`BackgroundJobs`): each race is between two commands, or one and a worker.
- `DayTicks`, `WeekDays`, `Change`, `Shift`, `MaxTime`, `MaxCommands`, `MaxFailures` (`Automations`): the clock passes two days and
  the change between them; an hour that is repeated has two moments, so that one can be in its midst; one command
  beside the server, one operation cut off. A clock changes by no more than a day, and not before it starts.

Lanes, processes and requests of `ProviderBudget`, and tasks of `NativeRunner` are interchangeable in invariants and
actions, and their runs use symmetry; none of them checks liveness.

Deadlock is checked where the system never stops by itself: the store and the
graph. It is not checked in `orchestrator` and `lanes`, whose processes end, in `mcp`, whose
use ends, nor in `budget`, `native`, `background_jobs` and `automations`, which end with their bounds.

### Fairness

- `RunStore!FairSpec`: a process that has started an operation goes on with it.
  Each step is a system call or an SQLite transaction. Starting one is not fair.
- `Orchestrator!FairSpec`: the command goes on. Planner and agents are subprocesses or HTTP
  calls with a timeout; the user's answer is not fair.
- `RepoGraph!FairSpec`: the thread that holds the lock goes on, and the watcher polls
  (`_run` waits 0.25 s at a time). Queries are not fair.
- `McpClient!FairSpec`: the client goes on, and the server takes what it is sent and answers what it
  has taken. A server that hangs makes its client hang, which has no timeout; that is a fact of the
  code, and the property is about the other servers. `UseEnds` excepts one that blocks on its standard error, which `mcp_client.py:90` never reads.
- `BackgroundJobs!FairSpec`: processes are scheduled, a worker's turn ends (weak fairness of `Step`), and somebody looks at
  the row (`Poll`; `--wait` looks every second). The exit of a command line's process is strongly fair: `--wait` has
  a timeout, so a process that looks again and again, and is not free to exit while it looks, still exits, and leaves its zombie to init.
  A server (`Servers`) is not assumed to end: `automation serve` (`automation_manager.py:539`) and the RPC server
  (`server/handlers/tasks.py:160`, `agents.py:42`) start workers as their own children and go on. `RunningEnds` excepts the
  row of a worker that was killed and that such a server has not reaped (`Unreaped`).
- `Automations!FairSpec`: time passes, and a server that runs polls. Nobody has to restart one that
  an exception ended, and `DueIsLaunched` excepts that.

### Where the code and its documents differ

Each violated run quotes the line it refutes; PROJECT.json has the findings. More
properties fail in the same way, and some hold only because an instance leaves a case out. They have no run
of their own and can be checked with these changes:

- `RunStore!RowsReadAtRest` (two runs, one payload, `MaxCrashes = 1`, as in
  `RunStoreTwoRuns.cfg`): a writer that dies after it truncated the shared temporary
  file which the other then renames leaves an empty blob for good.
- `RunStore!MirrorVerifiesAtRest` with one process and `MaxCrashes = 1`: a death
  between commit and append leaves an event without its line for good.
- `ProviderBudget!StopsAtMaxCalls` with `MaxBatch = 3`: a batch is checked request by
  request against a ledger that knows none of them.
- `ProviderBudget!AllCallsRecorded` with two processes: of two entries recorded
  at the same time one is lost from `LEDGER.json`.
- `ProviderBudget!StopsAtMaxWallTime` with `TimeBound` of 2 and `MaxWall = 1`: every load of the ledger restarts the
  clock (`cost.py:61`), so the limit of seconds stops nothing.
- `Replay!ReplayReconstructs` with `Modes = {"pipe"}`, `MaxTasks = 1`: no event says that a run awaits
  confirmation, so replay does not reconstruct its status (`docs/replay.md:3`, `docs/ARCHITECTURE.md:43`).
- `Lanes!ReviewsCompletedRuns` as in `Lanes.cfg`: `review-run` reviews a run in any state, where
  `docs/ARCHITECTURE.md:41` speaks of a completed run.
- `McpClient!AnswersAreOwn` with `ServerIds = {2}`: a request of the server's own with the id of the client's is taken for
  the answer, since a line is judged by its id only (`mcp_client.py:94`).
- `NoServerLeft` without `connected`: a server that fails `initialize` is left running, because the
  callers connect outside their `try` (`mcp_client.py:132`, `:156`).
- `BackgroundJobs!CompletedStays` with `MaxCommands = 1`, `MaxDeaths = 0`: a quick worker completes the task before its
  starter writes it running (`task_manager.py:588`); the next reader finds no worker and the task failed.
- `RunningEnds` without `Unreaped`: a killed worker of a server stays a zombie, which `os.kill(pid, 0)` finds
  (`task_manager.py:744`), and its row running, until the server happens to start another process or ends; the reconciliation
  that should fail it ("worker process exited unexpectedly", `task_manager.py:789`) does not come.
- `NextIsFirst` without `Steady`: a weekly schedule is computed without the fold (`automation_manager.py:237`), so in the hour
  that is repeated its next run lies in the past, and each poll launches it again. A daily one loses the fold where a day is
  added (`automation_manager.py:226`), which shows if the repeated hour passes midnight.
- `RepoGraph!RetryFollowsDisk` as in `RepoGraph.cfg`: after a refresh that raised
  half-way, a deleted file's module may stay.

## Proofs

All theorems hold for every value of the constants that satisfies the modules'
assumptions: any processes, runs, events, payloads, files, edits, requests, commands, schedules, number of deaths, and
plans of any length. Eight theorems assume one thing more, in their statement: that
`Procs` is finite, that a process is alone or a run has one user, that no file changes while the index is first built (two), that a server's
ids are not the client's, or that requests are sent one at a time (two).

- `RunStoreProofs`: `TypeCorrect` is inductive once each job's directory is known to be
  the CAS or its own run's (`DirsOK`). `MirrorIsSound` needs `StreamInv`: an event
  whose append is under way is in the table, has no line, and no other process has it
  too. With it `StreamRefinement` maps a commit to `Commit`, a line to `Mirror`, and everything
  else to a stutter. `RowsAreBacked` needs `BlobInv`: a put that has passed a place
  found or published a blob there. `TornBlobsHaveWriters` needs `TornInv`: without deaths,
  a torn temporary file has a writer with a descriptor on it. `SingleWriterRunsVerify`
  needs `OrderInv`: with one user, the mirror is the table, less the one event that
  is being appended. `NothingWithdrawn` is the action property. `MirrorsAreUpToDate` counts: with `StreamInv`,
  the events that lack their line are no more than the appends under way and the deaths
  (`GapsCounted`), which are a finite set because processes are. `AloneBlobsAreWhole` needs `AloneInv`: a process that is
  alone writes only the temporary file, and renames it only when it is whole.
- `OrchestratorProofs`: the strengthening is `TypeOK /\ Where`. `Where` says for each phase, before and after
  the calls of its script, what the rows and counters are. From it `LifecycleRefinement`
  shows that every call that writes a row finds the lifecycle's guard true, and
  `RowsAreSound` what the rows say: `LifecycleSound`, whose four invariants are inductive together, carried over. `ConsentFirst` adds `Permission` (past the
  confirmation there is a yes), `NothingAfterTheEnd` adds `AtEnd` (a terminal event is the
  last call of its script). `EvidenceComesFirst` adds `Backed`: the evidence that the script puts before the call at
  hand (`Behind`) is in the store, for the task at hand and for the run's end.
  `ReturnedIsSettled` rests on it and on `Refused` (a cancellation has a no). `ReplayIsFaithful` adds `Tale`: which event that
  tells a status is the last, of the run and of each task, as a function of the place in the script (a set of positions
  with a last one needs no induction over the log). What that event tells is then compared with what `Where` says of the rows.

  The lanes are in the same module, since `LanesNext` without the lanes is the command (`CommandTypes`). `VerdictFilesAgree` needs
  `WriterKnown`: unless a verdict was raced for, at most one writer is between its file and its row, and the
  file holds what that one will put. `ReviewsListTheirSources` needs `SawAll`: once the command is over nothing
  a prompt is made of changes. `ReviewsRepeat` needs that a review that is over has left its answer in the cache (`AnswersKept`), and
  that between two reviews only the first's is there (`FirstAnswer`, `SecondAnswer`).
- `ProviderBudgetProofs`: the types need the shape of each operation (`JobOK`: as many answers as requests still to
  record). `BudgetInv` is `LedgersBehind` (no ledger counts more than the entries, but for the one its process is about to
  append), `LedgersWarned` (a ledger about to be written has told all that is due, and only what was told) and
  `AloneExact` (for a process alone, what the entries and the warnings exceed the ledger by is what it has in hand and what
  died). `WarningsAreDue` and `LedgerIsExact` follow. For requests sent one at a time an operation passes through four
  phases (`Phase`: it wants an answer, may ask, has it, has stored it). `AnswersArePaidOnce` counts processes by phase (`Shared`):
  as long as no response is stored, each answer paid for is at a process or died with it, and
  each process that still wants one stands for an answer yet to come. `SpendingIsBounded` needs `SpendsWell`: what was spent is in the ledger, is
  owed to it (`Owed`), or died with a process. Of batches neither holds: they are checked before any of them is recorded, and
  an exception drops the answers that came before it.
- `RepoGraphProofs`: `GraphInv` says, for the scan, the parse and the build, how the signatures taken so far, the
  modules and the disk are related: a file's signature is never newer than the file (`Known`), and what still has its recorded
  signature was parsed with it (`Parsed`). `GraphIsSound` is its state between two refreshes, `RefreshesFollow` its
  state where a refresh returns.
- `McpClientProofs`: `AnswersComeBack` needs `OwnLines`, that each line of the server's own on its way carries no id or one of
  the server's; `NoServerStays` needs only that nothing is connected before it starts.
- `BackgroundJobsProofs`: `JobsInv` says of the code each process has left how its instructions may follow one
  another (`CodesGood`: a launch comes only after the read that found the row startable), that it reaches a launch only on an approved row (`ApprovalKept`), that only started workers
  execute (`WorkersStarted`), and that there is a command for every worker (`WorkersCounted`, which bounds their number).
  `WorkIsDoneOnce` and `CancelledWorkStops` need `CalmInv`: as long as commands neither overlapped nor died half-way, one
  process is at a command, what it read is what the row says, and the row names the one worker there is.
- `AutomationsProofs`: arithmetic first. `UtcIs` says which moment a wall time is, `DailyFirst` and `WeeklyFirst` that the program looks for
  the first wall time of a schedule after the one it starts from (`FirstWall`; any other is a day later or more, no less than a clock
  changes by), and `FirstRun` that its moment is the first, too. `NextRunsAreFirst` needs of the state only that next runs are
  computed from `from`. `EnabledRunsAgain` and `MomentsAreLaunchedOnce` need `Alone` (what no two operations overlapped on, one
  process has in hand, and what it read is the row) and `Ahead` (a steady next run is later than the last launch, but
  between a server's launch and its UPDATE, `Moving`).
- `NativeRunnerProofs`: the types alone are not inductive: that the count
  of tool calls stays within its cap needs `CapHolds`, that a tool at hand has passed the
  test. For `ToolsRunOnce`, `Accounted` bounds the executions of a call by the deaths, and one more if it
  has a record or is about to have one; `ToolAtHand` says that a tool that is run has no record. `TranscriptsAreSound` needs
  `Conversation`: with the answers still to come, the messages are whole exchanges of responses on record, through compaction and
  whatever `Normalises` has dropped; that each call shown is answered (`ShownAreAnswered`) follows from what it keeps. `RecordsReplay` is about two attempts, so
  it states where the records alone lead one (`Follows`, which is deterministic, and `Reached`, its
  closure, as the intersection of the closed sets): an attempt under way is where they lead (`OnTheWay`), a task that has finished ended where
  they lead (`FirstEnd`), records are only added, and two ends that are both reached are one.

Only model-checked is liveness, which is out of the prover's reach:
`EventsReachMirror`, `RowsEventuallyRead`, `RunSettles`, `WatcherCatchesUp`, `UseEnds`, `RunningEnds`,
`DueIsLaunched`. Every other property that a passing run checks is also a theorem. `PublishedBlobsWhole`, which a run would
check of one process only, is only proved.

## Not modelled

The text of prompts, packets, artifacts and reports; prices; parsers and queries of the
graph; provider adapters and HTTP; configuration files; the sandbox's patterns;
agents as subprocesses; schema migrations; benchmarks
and scripts. PROJECT.json has the reason for each component. SQLite's lock timeout appears as an operation that does not
start.

Of v5 only the background jobs and the automations are modelled, the two parts in which processes meet on one table. The
rest of `src/legacy` is more than four fifths of the repository's implementation lines, and most of that is
built-in tools, prompts, retrieval heuristics, provider conversions and user interfaces: functions of their
arguments, whose models would be as long as they are. It is kept for reference and no longer built. The modules here stand for a
small share of all lines for that reason, and for nearly all of v6 that has state.

## Plan

What a next step would take up, in this order:

1. What batches promise: one process pays for a request no more than once for each exception and each death, and overruns `max_calls`
   by less than a batch.
2. An abstract specification of what a native attempt promises (a function of its records, from `Follows`) and of a
   background job's row, each implemented by the module as `RunStore` implements `EventStream`; `AutomationsProofs!Ahead` as a
   step property: the moments a server launches go up.
3. v5's turn lifecycle and checkpoints (`core_turn_lifecycle.py`, `checkpoint.py`): a turn that is cancelled between its edits and
   its checkpoint.
4. Signatures restored by `mv` in `RepoGraph`; the dollar limit and strict pricing in
   `ProviderBudget`; `explain_route` and `_validate_args` as functions.
