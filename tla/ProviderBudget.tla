--------------------------- MODULE ProviderBudget ---------------------------
(***************************************************************************)
(* Calls to a model provider on behalf of one run                          *)
(* (src/src/poor_cli/providers.py:CachedReplayProvider) and the budget     *)
(* they are charged to (src/src/poor_cli/cost.py:BudgetLedger).            *)
(*                                                                         *)
(* A request whose response the run already holds is answered from it.     *)
(* The others are checked against the ledger, sent, stored and recorded.   *)
(* `call` is `call_many` of one request: the same steps in the same order. *)
(* No ledger is kept in memory: each use loads the last one written (the   *)
(* latest budget.ledger artifact), and writes a whole one back.            *)
(*                                                                         *)
(* Requests and responses are what they cost.  The limit in dollars is     *)
(* checked and recorded at the same places as the limit in tokens, and is  *)
(* left out, as are the hooks' other callbacks.                            *)
(***************************************************************************)
EXTENDS Integers, Sequences, FiniteSets

CONSTANTS
  Procs,       \* processes that call on behalf of some run
  Live,        \* those that are neither offline nor replay-only
  Requests,    \* request hashes
  MaxBatch,    \* the longest list given to call_many
  MaxCalls,    \* the run's budget: provider calls
  MaxTokens,   \* the run's budget: tokens
  MaxWall,     \* the run's budget: seconds
  Input,       \* estimated input tokens of a request
  MaxUsage,    \* the most tokens a response is charged for
  MaxOps,      \* bound on the operations started, by the size of the team
  MaxTime,     \* bound on the clock, by the size of the team
  MaxCrashes   \* bound on the processes that die

ASSUME BudgetAssumption ==
  /\ Live \subseteq Procs /\ IsFiniteSet(Procs)
  /\ MaxBatch \in Nat \ {0} /\ MaxCrashes \in Nat
  /\ \A f \in {MaxOps, MaxTime} : \A n \in 1..Cardinality(Procs) : f[n] \in Nat
  /\ MaxCalls \in Nat \ {0} /\ MaxTokens \in Nat \ {0} /\ MaxWall \in Nat \ {0}
  /\ Input \in Nat \ {0} /\ MaxUsage \in Nat \ {0}

VARIABLES
  team,      \* the processes that call on behalf of this run
  held,      \* tokens of the stored response to each request, 0 if there is none
  ledger,    \* the last budget/LEDGER.json written: calls, tokens, warnings
  entries,   \* the run's budget.entry events: how many, and their tokens
  warnings,  \* how often each budget.warning was appended
  asked,     \* how often each request was sent to the provider and answered
  spent,     \* all answers: how many, and their tokens
  job,       \* the operation of each process
  now, last, \* the clock, and when a request last passed the check
  ops, crashes

vars == <<team, held, ledger, entries, warnings, asked, spent, job, now, last, ops, crashes>>

Limits == {"max_calls", "max_tokens"}
Codes  == Limits \X {50, 80, 100}
Ledgers == [calls : Nat, tokens : Nat, warned : SUBSET Codes]
Empty   == [calls |-> 0, tokens |-> 0, warned |-> {}]

\* step    where the process is, and back where it goes on after an entry
\* todo    requests still to look up; then the misses still to check, ask, store
\* misses  requests that no stored response answers
\* usage   tokens of the answers still to store
\* charge  tokens of the entry being recorded
\* mine    the ledger as this process loaded it, with its own changes
Idle == [step |-> "idle", todo |-> <<>>, misses |-> <<>>, usage |-> <<>>, charge |-> 0,
         mine |-> Empty, back |-> "idle"]

Init ==
  /\ team \in (SUBSET Procs) \ {{}}
  /\ held = [h \in Requests |-> 0]
  /\ ledger = Empty
  /\ entries = [calls |-> 0, tokens |-> 0]
  /\ warnings = [c \in Codes |-> 0]
  /\ asked = [h \in Requests |-> 0] /\ spent = [calls |-> 0, tokens |-> 0]
  /\ job = [p \in Procs |-> Idle]
  /\ now = 0 /\ last = 0 /\ ops = 0 /\ crashes = 0

At(p, step) == job[p].step = step
Steps   == {"idle", "lookup", "check", "refuse", "ask", "store",
            "load", "entry", "warn", "write"}
Batches == UNION {[1..n -> Requests] : n \in 1..MaxBatch}
Jobs    == [step : Steps, todo : Seq(Requests), misses : Seq(Requests), usage : Seq(Nat),
            charge : Nat, mine : Ledgers, back : Steps]

Bound(f) == f[Cardinality(team)]

TypeOK ==
  /\ team \in (SUBSET Procs) \ {{}}
  /\ held \in [Requests -> 0..MaxUsage]
  /\ ledger \in Ledgers
  /\ entries \in [calls : Nat, tokens : Nat]
  /\ warnings \in [Codes -> Nat]
  /\ asked \in [Requests -> Nat] /\ spent \in [calls : Nat, tokens : Nat]
  /\ job \in [Procs -> Jobs]
  /\ now \in 0..Bound(MaxTime) /\ last \in 0..Bound(MaxTime)
  /\ ops \in 0..Bound(MaxOps) /\ crashes \in 0..MaxCrashes

More(p)    == job[p].todo # <<>>
First(p)   == Head(job[p].todo)
Set(p, j)  == job' = [job EXCEPT ![p] = j]
Drop(j)    == [j EXCEPT !.todo = Tail(@)]
Then(j, s) == [j EXCEPT !.step = s, !.todo = j.misses]

log      == <<entries, warnings>>
provider == <<asked, spent, last>>
bounds   == <<now, ops, crashes>>

-----------------------------------------------------------------------------
(* call and call_many: look up, check, ask, store.                         *)

Start(p, hs) ==
  /\ At(p, "idle") /\ ops < Bound(MaxOps)
  /\ Set(p, [Idle EXCEPT !.step = "lookup", !.todo = hs])
  /\ ops' = ops + 1
  /\ UNCHANGED <<held, ledger, log, provider, now, crashes>>

\* Mutant: a stored response is not looked for.
AskAgain(p) ==
  /\ At(p, "lookup") /\ More(p)
  /\ Set(p, [Drop(job[p]) EXCEPT !.misses = Append(@, First(p))])
  /\ UNCHANGED <<held, ledger, log, provider, bounds>>

CacheHit(p) ==
  /\ At(p, "lookup") /\ More(p) /\ held[First(p)] > 0
  /\ Set(p, [Drop(job[p]) EXCEPT !.step = "load", !.charge = held[First(p)], !.back = "lookup"])
  /\ UNCHANGED <<held, ledger, log, provider, bounds>>

CacheMiss(p) ==
  /\ At(p, "lookup") /\ More(p) /\ held[First(p)] = 0
  /\ Set(p, [Drop(job[p]) EXCEPT !.misses = Append(@, First(p))])
  /\ UNCHANGED <<held, ledger, log, provider, bounds>>

\* All served, or ProviderReplayMiss or OfflineModeError, or on to the provider.
LookedUp(p) ==
  /\ At(p, "lookup") /\ ~More(p)
  /\ Set(p, IF job[p].misses = <<>> \/ p \notin Live THEN Idle ELSE Then(job[p], "check"))
  /\ UNCHANGED <<held, ledger, log, provider, bounds>>

\* The ledger's clock starts when it is loaded, immediately before the check.
StartedAt == now

\* Mutant: tokens are not checked.
WithinCalls(l) == l.calls + 1 <= MaxCalls

WithinBudget(l) ==
  /\ now - StartedAt <= MaxWall
  /\ l.calls + 1 <= MaxCalls
  /\ l.tokens + Input <= MaxTokens

CheckPasses(p) ==
  /\ At(p, "check") /\ More(p) /\ WithinBudget(ledger)
  /\ Set(p, Drop(job[p]))
  /\ last' = now
  /\ UNCHANGED <<held, ledger, log, asked, spent, bounds>>

CheckFails(p) ==
  /\ At(p, "check") /\ More(p) /\ ~WithinBudget(ledger)
  /\ Set(p, [job[p] EXCEPT !.step = "refuse", !.mine = ledger])
  /\ UNCHANGED <<held, ledger, log, provider, bounds>>

\* _exceeded writes the ledger it loaded, and raises.
Refuse(p) ==
  /\ At(p, "refuse")
  /\ ledger' = job[p].mine
  /\ Set(p, Idle)
  /\ UNCHANGED <<held, log, provider, bounds>>

Checked(p) ==
  /\ At(p, "check") /\ ~More(p)
  /\ Set(p, Then(job[p], "ask"))
  /\ UNCHANGED <<held, ledger, log, provider, bounds>>

Answer(p, tokens) ==
  /\ At(p, "ask") /\ More(p)
  /\ asked' = [asked EXCEPT ![First(p)] = @ + 1]
  /\ spent' = [calls |-> spent.calls + 1, tokens |-> spent.tokens + tokens]
  /\ Set(p, [Drop(job[p]) EXCEPT !.usage = Append(@, tokens)])
  /\ UNCHANGED <<held, ledger, log, last, bounds>>

Answered(p) ==
  /\ At(p, "ask") /\ ~More(p)
  /\ Set(p, Then(job[p], "store"))
  /\ UNCHANGED <<held, ledger, log, provider, bounds>>

\* before_model_call or the provider raises, or a batch returns a wrong number
\* of answers: those that came are dropped.
Raises(p) ==
  /\ \/ At(p, "check") /\ job[p].todo # job[p].misses
     \/ At(p, "ask") /\ (More(p) \/ Len(job[p].misses) > 1)
  /\ Set(p, Idle)
  /\ UNCHANGED <<held, ledger, log, provider, bounds>>

\* The provider.response artifact is written before its entry.
StoreResponse(p) ==
  /\ At(p, "store") /\ More(p)
  /\ held' = [held EXCEPT ![First(p)] = Head(job[p].usage)]
  /\ Set(p, [Drop(job[p]) EXCEPT !.step = "load", !.back = "store",
                                 !.charge = Head(job[p].usage), !.usage = Tail(@)])
  /\ UNCHANGED <<ledger, log, provider, bounds>>

Returns(p) ==
  /\ At(p, "store") /\ ~More(p)
  /\ Set(p, Idle)
  /\ UNCHANGED <<held, ledger, log, provider, bounds>>

-----------------------------------------------------------------------------
(* BudgetLedger.load and record_provider_response: a cache hit is recorded *)
(* like an answer.                                                         *)

Load(p) ==
  /\ At(p, "load")
  /\ Set(p, [job[p] EXCEPT !.step = "entry",
               !.mine = [ledger EXCEPT !.calls = @ + 1, !.tokens = @ + job[p].charge]])
  /\ UNCHANGED <<held, ledger, log, provider, bounds>>

AppendEntry(p) ==
  /\ At(p, "entry")
  /\ entries' = [calls |-> entries.calls + 1, tokens |-> entries.tokens + job[p].charge]
  /\ Set(p, [job[p] EXCEPT !.step = "warn"])
  /\ UNCHANGED <<held, ledger, warnings, provider, bounds>>

Used(l, limit)  == IF limit = "max_calls" THEN l.calls ELSE l.tokens
Limit(limit)    == IF limit = "max_calls" THEN MaxCalls ELSE MaxTokens

\* Mutant: no warning at the threshold itself.
DueAbove(l) == {c \in Codes : Used(l, c[1]) * 100 > Limit(c[1]) * c[2]}

Due(l) == {c \in Codes : Used(l, c[1]) * 100 >= Limit(c[1]) * c[2]}

\* One warning event each; their order is left open.
Warn(p) ==
  /\ At(p, "warn")
  /\ \E c \in Due(job[p].mine) \ job[p].mine.warned :
       /\ warnings' = [warnings EXCEPT ![c] = @ + 1]
       /\ Set(p, [job[p] EXCEPT !.mine.warned = @ \cup {c}])
  /\ UNCHANGED <<held, ledger, entries, provider, bounds>>

Warned(p) ==
  /\ At(p, "warn") /\ Due(job[p].mine) \subseteq job[p].mine.warned
  /\ Set(p, [job[p] EXCEPT !.step = "write"])
  /\ UNCHANGED <<held, ledger, log, provider, bounds>>

WriteAs(p, l) ==
  /\ At(p, "write")
  /\ ledger' = l
  /\ Set(p, [job[p] EXCEPT !.step = job[p].back])
  /\ UNCHANGED <<held, log, provider, bounds>>

\* Mutant: the entries are not kept.
WriteWarningsOnly(p) == WriteAs(p, [ledger EXCEPT !.warned = job[p].mine.warned])

WriteLedger(p) == WriteAs(p, job[p].mine)

-----------------------------------------------------------------------------
Crash(p) ==
  /\ ~At(p, "idle") /\ crashes < MaxCrashes
  /\ crashes' = crashes + 1
  /\ Set(p, Idle)
  /\ UNCHANGED <<held, ledger, log, provider, now, ops>>

Tick ==
  /\ now < Bound(MaxTime) /\ now' = now + 1
  /\ UNCHANGED <<held, ledger, log, provider, job, ops, crashes>>

Step(p) ==
  \/ \E hs \in Batches : Start(p, hs)
  \/ CacheHit(p) \/ CacheMiss(p) \/ LookedUp(p)
  \/ CheckPasses(p) \/ CheckFails(p) \/ Refuse(p) \/ Checked(p)
  \/ \E tokens \in 1..MaxUsage : Answer(p, tokens)
  \/ Answered(p) \/ Raises(p) \/ StoreResponse(p) \/ Returns(p)
  \/ Load(p) \/ AppendEntry(p) \/ Warn(p) \/ Warned(p) \/ WriteLedger(p)
  \/ Crash(p)

Next == (Tick \/ \E p \in team : Step(p)) /\ UNCHANGED team

Spec == Init /\ [][Next]_vars

-----------------------------------------------------------------------------
(* What a budget promises.  Of a process that works alone an answer escapes *)
(* the ledger only when it dies holding it, so a crash costs at most one   *)
(* call, and everything else is exact.                                     *)

Alone == Cardinality(team) = 1

\* One process that sends one request at a time: the calls answered by the provider
\* never exceed max_calls by more than the processes that died, whatever mix of cached
\* and live requests they come in; and the tokens charged overrun max_tokens by no
\* more than what one answer may cost beyond its estimate, and one answer per death.
StaysWithinBudget ==
  Alone =>
    /\ spent.calls <= MaxCalls + crashes
    /\ spent.calls > 0 => spent.tokens <= MaxTokens - Input + (1 + crashes) * MaxUsage

\* Of processes that send one request at a time: a response that was stored is never
\* paid for again, and a request is answered again only after the process that had its
\* answer died, or beside another process that asks at the same time.
PaidOnce == \A h \in Requests : asked[h] <= Cardinality(Live \cap team) + crashes

\* The ledger of one process holds the entry of every budget.entry event, except one
\* that is being recorded and those whose process died before it wrote the ledger.
LedgerFollowsEvents ==
  Alone =>
    /\ ledger.calls <= entries.calls
    /\ entries.calls <= ledger.calls + crashes
         + Cardinality({p \in Procs : job[p].step \in {"warn", "write"}})

Reached(l, c) == Used(l, c[1]) * 100 >= Limit(c[1]) * c[2]

\* A warning is no false alarm: the entries logged so far reach its threshold.  It is
\* no late one: no threshold of the ledger was reached without its warning, however
\* many processes overwrite the ledger and wherever one of them dies.  And one process
\* warns of a threshold once, and once more at most for every death.
WarningsAreRight ==
  \A c \in Codes :
    /\ warnings[c] > 0 => Reached(entries, c)
    /\ Reached(ledger, c) => warnings[c] > 0
    /\ Alone => warnings[c] <= 1 + crashes

-----------------------------------------------------------------------------
(* What the documents say and the code does not keep.                      *)

\* WORKON-PIVOT-ASAP.md:512: the run stops before exceeding its max wall time.
\* The ledger measures from its own load, never from the start of the run.
StopsAtMaxWallTime == last <= MaxWall

\* WORKON-PIVOT-ASAP.md:512: the run stops before exceeding its max calls.  The
\* requests of one call_many are each checked before any of them is recorded.
StopsAtMaxCalls == spent.calls <= MaxCalls

\* docs/providers.md:52: provider calls are recorded in budget/LEDGER.json.  Two
\* processes that load the same ledger each write it without the other's entry.
AllCallsRecorded == (\A p \in Procs : At(p, "idle")) => ledger.calls = entries.calls
=============================================================================
