---------------------------- MODULE NativeRunner ----------------------------
(***************************************************************************)
(* The native agent (src/src/poor_cli/native_runner.py): a loop that asks  *)
(* the provider, runs the tools it calls for through the dispatcher        *)
(* (src/src/poor_cli/tools/dispatcher.py), and asks again with their       *)
(* results, until there is nothing to call or a cap is reached.            *)
(*                                                                         *)
(* Responses and results are recorded with the run; a request that has a   *)
(* record is answered from it.  So a task may be attempted again, to       *)
(* replay it (`replay_only`) or because an attempt raised or died.         *)
(* Attempts follow one another.  A request to the provider is the          *)
(* transcript; a request to a tool is its name and arguments, one member   *)
(* of Tools; a tool's result is its length in the transcript.              *)
(*                                                                         *)
(* A reply of the provider is what the code makes of its raw JSON: `found` *)
(* are the calls that the parser of that provider finds in it, and `shown` *)
(* the messages it adds to the transcript, each as the calls it carries.   *)
(* OpenAI's output items, Anthropic's content and a chat message are added *)
(* as they are; of any other shape (Gemini's candidates, calls at the top  *)
(* level or in events alone) only the text is, in a message without calls. *)
(***************************************************************************)
EXTENDS Naturals, SequencesExt

CONSTANTS
  Tasks,         \* tasks of the run
  Tools,         \* what may be called: a tool's name and arguments
  NameOf,        \* the name of each, "" if the call has none
  Known,         \* those whose tool exists
  Ids,           \* call ids, "" where the provider gives none
  Replies,       \* what the provider may reply
  MaxCalls,      \* bound on the calls the runner takes from one response
  MaxTurns,      \* max_turns
  MaxToolCalls,  \* max_tool_calls
  MaxBytes,      \* the length beyond which a transcript is compacted
  Window,        \* messages that compaction keeps
  Results,       \* what tools may return: lengths
  MaxAttempts,   \* bound on the attempts
  MaxCrashes     \* bound on the deaths

Calls == [id : Ids, tool : Tools]

\* A reply is of its provider's kind: the parser finds the calls its messages carry.
ASSUME NativeAssumption ==
  /\ Known \subseteq Tools /\ Results \subseteq Nat \ {0}
  /\ \A rp \in Replies :
       /\ rp.found \in Seq(Calls) /\ rp.shown \in Seq(Seq(Calls))
       /\ \A k \in DOMAIN rp.shown : Range(rp.shown[k]) \subseteq Range(rp.found)
  /\ MaxCalls \in Nat /\ MaxAttempts \in Nat /\ MaxCrashes \in Nat
  /\ MaxTurns \in Nat \ {0} /\ MaxToolCalls \in Nat /\ MaxBytes \in Nat /\ Window \in Nat \ {0}

VARIABLES
  responses,  \* the stored response to each transcript that was asked about
  results,    \* the stored result of each tool call, 0 if there is none
  executed,   \* how often each tool call was executed
  first,      \* how the first attempt to finish each task ended
  job,        \* the attempt under way, or the last one
  attempts, crashes

records == <<responses, results>>
vars == <<responses, results, executed, first, job, attempts, crashes>>

CallLists == UNION {[1..n -> Calls] : n \in 0..MaxCalls}
Responses == [calls : CallLists, shown : Seq(Seq(Calls))]
NoReply   == [calls |-> <<>>, shown |-> <<>>]

Named(c) == NameOf[c.tool] # ""
Key(c)   == <<c.id, NameOf[c.tool]>>

\* Of the calls with a name, the first of each id and name is kept, whatever its arguments.
Normalises(cs, found) ==
  \E f \in [DOMAIN cs -> DOMAIN found] :
    /\ \A k \in DOMAIN cs : cs[k] = found[f[k]] /\ Named(cs[k])
    /\ \A k, l \in DOMAIN cs : k < l => f[k] < f[l] /\ Key(cs[k]) # Key(cs[l])
    /\ \A i \in DOMAIN found : Named(found[i]) =>
         \E k \in DOMAIN cs : f[k] <= i /\ Key(cs[k]) = Key(found[i])

Message(role, calls, length) == [role |-> role, calls |-> calls, length |-> length]
Prompt(t)   == <<Message("user", <<t>>, 1)>>
Assistant(cs) == Message("assistant", cs, 1)
Says(shown)   == [k \in DOMAIN shown |-> Assistant(shown[k])]
Answer(c, r)  == Message("tool", <<c>>, r)
Summary       == Message("system", <<>>, 1)

\* step    where the attempt is; "over" when it has ended
\* reply   what the provider answered, not recorded yet
\* calls   what the last response calls for and has no answer yet
\* result  what the tool at hand returned, not recorded yet
Attempt(t, replay) ==
  [task |-> t, replay |-> replay, step |-> "turn", turn |-> 1, tools |-> 0,
   messages |-> Prompt(t), reply |-> NoReply, calls |-> <<>>, result |-> 0, reason |-> "none"]

Finished == {"final", "max_tool_calls", "max_turns"}
Reasons  == Finished \cup {"none", "raised", "missed", "died"}
Steps    == {"turn", "lookup", "ask", "store", "call", "run", "record", "over"}

Outcome(j)   == [messages |-> j.messages, turn |-> j.turn, tools |-> j.tools, reason |-> j.reason]
NoOutcome(t) == Outcome(Attempt(t, FALSE))

Roles    == {"user", "assistant", "tool", "system"}
Messages == [role : Roles, calls : Seq(Calls \cup Tasks), length : Nat]

TypeOK ==
  /\ \A ms \in DOMAIN responses : ms \in Seq(Messages) /\ responses[ms] \in Responses
  /\ results \in [Tools -> Results \cup {0}] /\ executed \in [Tools -> Nat]
  /\ \A t \in Tasks : first[t].reason \in Finished \cup {"none"}
  /\ job.task \in Tasks /\ job.step \in Steps /\ job.reason \in Reasons
  /\ job.messages \in Seq(Messages) /\ job.reply \in Responses /\ job.calls \in CallLists
  /\ job.turn \in 1..MaxTurns /\ job.tools \in 0..MaxToolCalls
  /\ attempts \in 0..MaxAttempts /\ crashes \in 0..MaxCrashes

Init ==
  /\ responses = <<>> /\ results = [c \in Tools |-> 0] /\ executed = [c \in Tools |-> 0]
  /\ first = [t \in Tasks |-> NoOutcome(t)]
  /\ \E t \in Tasks : job = [Attempt(t, FALSE) EXCEPT !.step = "over"]
  /\ attempts = 0 /\ crashes = 0

-----------------------------------------------------------------------------
At(step) == job.step = step
Go(step) == job' = [job EXCEPT !.step = step]
Calling  == At("call") /\ job.calls # <<>>
Call     == Head(job.calls)

\* The attempt is over.  The first one that finishes a task is remembered.
End(how) ==
  LET over == [job EXCEPT !.step = "over", !.reason = how] IN
  /\ job' = over
  /\ first' = IF how \in Finished /\ first[job.task].reason = "none"
              THEN [first EXCEPT ![job.task] = Outcome(over)]
              ELSE first

Begin(t, replay) ==
  /\ At("over") /\ attempts < MaxAttempts
  /\ job' = Attempt(t, replay) /\ attempts' = attempts + 1
  /\ UNCHANGED <<records, executed, first, crashes>>

-----------------------------------------------------------------------------
(* A turn: compact the transcript if it is long, and ask.                  *)

Bytes(ms) == FoldLeft(LAMBDA n, m : n + m.length, 0, ms)

Latest(ms) == SubSeq(ms, IF Len(ms) > Window THEN Len(ms) - Window + 1 ELSE 1, Len(ms))

\* Mutant: nothing marks the cut.
CompactSilently(ms) == <<Head(ms)>> \o Latest(ms)

\* A transcript within the window is kept whole, its prompt twice.
Compact(ms) == <<Head(ms), Summary>> \o Latest(ms)

Turn ==
  /\ At("turn")
  /\ job' = [job EXCEPT !.step = "lookup",
               !.messages = IF Bytes(@) > MaxBytes THEN Compact(@) ELSE @]
  /\ UNCHANGED <<records, executed, first, attempts, crashes>>

\* A response without calls is the final one, and is not added to the transcript.
Respond(rp) ==
  IF rp.calls = <<>> THEN End("final")
  ELSE /\ job' = [job EXCEPT !.step = "call", !.reply = NoReply, !.calls = rp.calls,
                             !.messages = @ \o Says(rp.shown)]
       /\ UNCHANGED first

CacheHit ==
  /\ At("lookup") /\ job.messages \in DOMAIN responses
  /\ Respond(responses[job.messages])
  /\ UNCHANGED <<records, executed, attempts, crashes>>

CacheMiss ==
  /\ At("lookup") /\ job.messages \notin DOMAIN responses
  /\ IF job.replay THEN End("missed") ELSE Go("ask") /\ UNCHANGED first
  /\ UNCHANGED <<records, executed, attempts, crashes>>

\* The budget, the network, a hook, or the provider itself.
ProviderRaises ==
  /\ At("ask") /\ End("raised")
  /\ UNCHANGED <<records, executed, attempts, crashes>>

ProviderAnswers(rp) ==
  /\ At("ask")
  /\ \E cs \in CallLists :
       /\ Normalises(cs, rp.found)
       /\ job' = [job EXCEPT !.step = "store", !.reply = [calls |-> cs, shown |-> rp.shown]]
  /\ UNCHANGED <<records, executed, first, attempts, crashes>>

StoreResponse ==
  /\ At("store")
  /\ responses' = [ms \in DOMAIN responses \cup {job.messages} |->
                     IF ms = job.messages THEN job.reply ELSE responses[ms]]
  /\ Respond(job.reply)
  /\ UNCHANGED <<results, executed, attempts, crashes>>

-----------------------------------------------------------------------------
(* The calls of a response, one after the other (ToolDispatcher.call).     *)

ToolCap ==
  /\ Calling /\ job.tools = MaxToolCalls
  /\ End("max_tool_calls")
  /\ UNCHANGED <<records, executed, attempts, crashes>>

Wanted == Calling /\ job.tools < MaxToolCalls

\* Mutant: a call that is answered from its record does not count.
HitsAreFree(r) ==
  [job EXCEPT !.step = "call", !.calls = Tail(@), !.result = 0,
     !.tools = IF results[Call.tool] = 0 THEN @ + 1 ELSE @,
     !.messages = Append(@, Answer(Call, r))]

Answered(r) ==
  [job EXCEPT !.step = "call", !.calls = Tail(@), !.tools = @ + 1, !.result = 0,
     !.messages = Append(@, Answer(Call, r))]

\* The hook after a tool call may raise, and its answer is then lost to the attempt.
AnswerOrRaise(r) == (job' = Answered(r) /\ UNCHANGED first) \/ End("raised")

ToolHit ==
  /\ Wanted /\ results[Call.tool] # 0
  /\ AnswerOrRaise(results[Call.tool])
  /\ UNCHANGED <<records, executed, attempts, crashes>>

\* Mutant: a call that has a record may be executed all the same.
ToolMissAlways ==
  /\ Wanted /\ (results[Call.tool] = 0 \/ ~ job.replay)
  /\ CASE job.replay            -> End("missed")
       [] Call.tool \notin Known -> End("raised")
       [] OTHER                 -> Go("run") /\ UNCHANGED first
  /\ UNCHANGED <<records, executed, attempts, crashes>>

\* Replay is checked before the name is.
ToolMiss ==
  /\ Wanted /\ results[Call.tool] = 0
  /\ CASE job.replay            -> End("missed")
       [] Call.tool \notin Known -> End("raised")
       [] OTHER                 -> Go("run") /\ UNCHANGED first
  /\ UNCHANGED <<records, executed, attempts, crashes>>

\* A tool that raises, or whose arguments its schema refuses, has a result too.
Execute(r) ==
  /\ At("run")
  /\ executed' = [executed EXCEPT ![Call.tool] = @ + 1]
  /\ job' = [job EXCEPT !.step = "record", !.result = r]
  /\ UNCHANGED <<records, first, attempts, crashes>>

Record ==
  /\ At("record")
  /\ results' = [results EXCEPT ![Call.tool] = job.result]
  /\ AnswerOrRaise(job.result)
  /\ UNCHANGED <<responses, executed, attempts, crashes>>

ToolsDone ==
  /\ At("call") /\ job.calls = <<>>
  /\ IF job.turn = MaxTurns THEN End("max_turns")
     ELSE job' = [job EXCEPT !.step = "turn", !.turn = @ + 1] /\ UNCHANGED first
  /\ UNCHANGED <<records, executed, attempts, crashes>>

\* The process dies; what is recorded stays.
Dies ==
  /\ ~ At("over") /\ crashes < MaxCrashes
  /\ End("died") /\ crashes' = crashes + 1
  /\ UNCHANGED <<records, executed, attempts>>

Next ==
  \/ \E t \in Tasks, replay \in BOOLEAN : Begin(t, replay)
  \/ Turn \/ CacheHit \/ CacheMiss \/ ProviderRaises
  \/ \E rp \in Replies : ProviderAnswers(rp)
  \/ StoreResponse \/ ToolCap \/ ToolHit \/ ToolMiss
  \/ \E r \in Results : Execute(r)
  \/ Record \/ ToolsDone \/ Dies

Spec == Init /\ [][Next]_vars

-----------------------------------------------------------------------------
(* Once a task has finished, whatever way, every later attempt at it that  *)
(* finishes, live or replayed, has the same transcript, turns and calls,   *)
(* and no replay of it misses: its records suffice, those of other tasks   *)
(* and of attempts that raised or died in between included (docs/replay.md:*)
(* offline replay needs no provider for cached runs;                       *)
(* tests/test_native_runner.py replays one that nothing disturbed).        *)
ReplayReproduces ==
  At("over") =>
    /\ job.reason \in Finished => Outcome(job) = first[job.task]
    /\ job.reason = "missed" => first[job.task].reason = "none"

(* A tool call is executed once, and once more for a death between its     *)
(* execution and its record: a task that is attempted again after a hook   *)
(* or the provider raised, or another task that makes the same call, does  *)
(* not run the tool a second time (the lookup at the head of               *)
(* ToolDispatcher.call).                                                   *)
ToolRunsOnce == \A c \in Tools : executed[c] <= 1 + crashes

-----------------------------------------------------------------------------
Kind(m)      == <<m.role, m.calls>>
Exchanged(m) == m.role \in {"assistant", "tool"}
Answers(cs) == [k \in DOMAIN cs |-> Answer(cs[k], 0)]

\* What a response adds to a transcript: its messages and an answer to each call it makes.
Exchange(rp) == Says(rp.shown) \o Answers(rp.calls)

\* Message `i` is part of exchange `x`, which stands in `ms` from `p` on without its first
\* messages up to `o`, and up to its end.  What it lacks a compaction has cut off.
StandsIn(ms, i, x) ==
  \E p \in 1..i, o \in DOMAIN x :
    /\ i - p <= Len(x) - o /\ p + (Len(x) - o) <= Len(ms)
    /\ \A e \in 0..Len(x) - o : Kind(ms[p + e]) = Kind(x[o + e])
    /\ o = 1 \/ (p > 1 /\ ms[p - 1].role = "system")

\* Every message of the provider and every answer is part of a whole exchange that is on
\* record: all the response said and all the answers it got, in order.  Only behind a mark
\* of compaction the first of them may be missing.
WholeExchanges(ms) ==
  \A i \in DOMAIN ms : Exchanged(ms[i]) =>
    \E q \in DOMAIN responses : StandsIn(ms, i, Exchange(responses[q]))

\* A call the provider is shown has an answer behind it, with its id and name, before
\* anything else is said.  (A call without a name has none.)
EveryCallAnswered(ms) ==
  \A i \in DOMAIN ms : ms[i].role = "assistant" =>
    \A k \in DOMAIN ms[i].calls : Named(ms[i].calls[k]) =>
      \E j \in i + 1..Len(ms) :
        /\ ms[j].role = "tool" /\ Key(ms[j].calls[1]) = Key(ms[i].calls[k])
        /\ \A b \in i..j : Exchanged(ms[b])

(* What the provider is sent is a conversation: whole exchanges, and every *)
(* call that it is shown answered.  The loop that collects the answers can *)
(* be left in its middle, calls may be dropped or not shown, and           *)
(* compaction takes a suffix of the transcript.                            *)
TranscriptsSound ==
  At("ask") => WholeExchanges(job.messages) /\ EveryCallAnswered(job.messages)
=============================================================================
