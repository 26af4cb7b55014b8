------------------------- MODULE NativeRunnerProofs -------------------------
(***************************************************************************)
(* For any tasks, tools, caps, and number of attempts and deaths: the      *)
(* types of NativeRunner are right; a tool call is executed once, and once *)
(* more for each death at most; the provider is sent conversations; and a  *)
(* task that has finished finishes the same way ever after.                *)
(***************************************************************************)
EXTENDS NativeRunner, SequenceTheorems, TLAPS

AttemptSet ==
  [task : Tasks, replay : BOOLEAN, step : Steps, turn : 1..MaxTurns, tools : 0..MaxToolCalls,
   messages : Seq(Messages), reply : Responses, calls : CallLists, result : Results \cup {0}, reason : Reasons]

OutcomeSet ==
  [messages : Seq(Messages), turn : 1..MaxTurns, tools : 0..MaxToolCalls,
   reason : Finished \cup {"none"}]

ResponsesOK ==
  \A ms \in DOMAIN responses : ms \in Seq(Messages) /\ responses[ms] \in Responses

JobOK == job \in AttemptSet /\ job.messages # <<>>

TypeInv ==
  /\ ResponsesOK /\ JobOK
  /\ results \in [Tools -> Results \cup {0}] /\ executed \in [Tools -> Nat]
  /\ first \in [Tasks -> OutcomeSet]
  /\ attempts \in 0..MaxAttempts /\ crashes \in 0..MaxCrashes

Holding(c) == At("record") /\ Call.tool = c

\* A tool that is run has a call that waits for it, and no record.
ToolAtHand ==
  (At("run") \/ At("record")) =>
    /\ job.calls # <<>> /\ results[Call.tool] = 0
    /\ At("record") => job.result \in Results

\* Beside its last execution, which is recorded or about to be, each took a death.
Accounted ==
  \A c \in Tools : executed[c] <= crashes + (IF results[c] # 0 \/ Holding(c) THEN 1 ELSE 0)

\* A cap on the calls of an attempt is tested before each, and what is at hand
\* has passed the test.
CapHolds == (At("run") \/ At("record")) => job.calls # <<>> /\ job.tools < MaxToolCalls

OnceInv == CapHolds /\ ToolAtHand /\ Accounted

-----------------------------------------------------------------------------
(* The lists that a response may call for, and messages.                   *)

\* CallLists holds the short sequences of calls.
LEMMA CallListsAre ==
  ASSUME NEW cs
  PROVE  cs \in CallLists <=> cs \in Seq(Calls) /\ Len(cs) <= MaxCalls
<1>1. ASSUME cs \in CallLists PROVE cs \in Seq(Calls) /\ Len(cs) <= MaxCalls
  BY <1>1, NativeAssumption DEF CallLists
<1>2. ASSUME cs \in Seq(Calls), Len(cs) <= MaxCalls PROVE cs \in CallLists
  <2>1. cs \in [1..Len(cs) -> Calls] /\ Len(cs) \in 0..MaxCalls BY <1>2, NativeAssumption
  <2> QED BY <2>1 DEF CallLists
<1> QED BY <1>1, <1>2

\* Its members lose their first call one by one without leaving it.
LEMMA CallsGoOn ==
  ASSUME NEW cs \in CallLists, cs # <<>>
  PROVE  Head(cs) \in Calls /\ Head(cs).tool \in Tools /\ Tail(cs) \in CallLists
<1>1. cs \in Seq(Calls) /\ Len(cs) <= MaxCalls BY CallListsAre
<1>2. Head(cs) \in Calls /\ Tail(cs) \in Seq(Calls) /\ Len(Tail(cs)) <= MaxCalls
  BY <1>1, NativeAssumption
<1>3. Head(cs).tool \in Tools BY <1>2 DEF Calls
<1> QED BY <1>2, <1>3, CallListsAre

\* What the runner writes to the transcript are messages.
LEMMA MessagesAre ==
  /\ \A t \in Tasks : Prompt(t) \in Seq(Messages) /\ Prompt(t) # <<>>
  /\ \A cs \in Seq(Calls) : Assistant(cs) \in Messages
  /\ \A c \in Calls, r \in Results \cup {0} : Answer(c, r) \in Messages
  /\ Summary \in Messages
<1>1. ASSUME NEW t \in Tasks PROVE Prompt(t) \in Seq(Messages) /\ Prompt(t) # <<>>
  BY DEF Prompt, Message, Messages, Roles
<1>2. ASSUME NEW cs \in Seq(Calls) PROVE Assistant(cs) \in Messages
  <2>1. cs \in Seq(Calls \cup Tasks) OBVIOUS
  <2> QED BY <2>1 DEF Assistant, Message, Messages, Roles
<1>3. ASSUME NEW c \in Calls, NEW r \in Results \cup {0} PROVE Answer(c, r) \in Messages
  <2>1. <<c>> \in Seq(Calls \cup Tasks) OBVIOUS
  <2>2. r \in Nat BY NativeAssumption
  <2> QED BY <2>1, <2>2 DEF Answer, Message, Messages, Roles
<1>4. Summary \in Messages
  BY DEF Summary, Message, Messages, Roles
<1> QED BY <1>1, <1>2, <1>3, <1>4

\* A function on the first numbers is a sequence.
LEMMA Numbered ==
  ASSUME NEW S, NEW n \in Nat, NEW f \in [1..n -> S]
  PROVE  f \in Seq(S) /\ Len(f) = n
OBVIOUS

\* So is what a response says, one message after the other.
LEMMA SaysIs ==
  ASSUME NEW shown \in Seq(Seq(Calls))
  PROVE  /\ Says(shown) \in Seq(Messages) /\ Len(Says(shown)) = Len(shown)
         /\ DOMAIN Says(shown) = 1..Len(shown)
         /\ \A k \in 1..Len(shown) : Says(shown)[k] = Assistant(shown[k]) /\ shown[k] \in Seq(Calls)
<1>1. DOMAIN shown = 1..Len(shown) /\ Len(shown) \in Nat
      /\ \A k \in 1..Len(shown) : shown[k] \in Seq(Calls)
  OBVIOUS
<1>2. Says(shown) = [k \in 1..Len(shown) |-> Assistant(shown[k])] BY <1>1 DEF Says
<1>3. Says(shown) \in [1..Len(shown) -> Messages] BY <1>1, <1>2, MessagesAre
<1>4. Says(shown) \in Seq(Messages) /\ Len(Says(shown)) = Len(shown) BY <1>1, <1>3, Numbered
<1> QED BY <1>1, <1>2, <1>4

\* A response may call for nothing.
LEMMA NoCalls == <<>> \in CallLists
<1>1. <<>> \in Seq(Calls) /\ Len(<<>>) = 0 OBVIOUS
<1>2. 0 <= MaxCalls BY NativeAssumption
<1> QED BY <1>1, <1>2, CallListsAre

\* Nothing said, nothing called for.
LEMMA NoReplyIs == NoReply \in Responses
<1>1. <<>> \in Seq(Seq(Calls)) OBVIOUS
<1> QED BY <1>1, NoCalls DEF NoReply, Responses

\* A transcript grows into a transcript.
LEMMA Appended ==
  ASSUME NEW ms \in Seq(Messages), NEW m \in Messages
  PROVE  Append(ms, m) \in Seq(Messages) /\ Append(ms, m) # <<>>
<1>1. Append(ms, m) \in Seq(Messages) /\ Len(Append(ms, m)) = Len(ms) + 1 OBVIOUS
<1>2. Len(ms) + 1 # 0 OBVIOUS
<1> QED BY <1>1, <1>2

LEMMA Extended ==
  ASSUME NEW ms \in Seq(Messages), ms # <<>>, NEW more \in Seq(Messages)
  PROVE  ms \o more \in Seq(Messages) /\ ms \o more # <<>>
<1>1. ms \o more \in Seq(Messages) /\ Len(ms \o more) = Len(ms) + Len(more) OBVIOUS
<1>2. Len(ms) > 0 /\ Len(ms) \in Nat /\ Len(more) \in Nat OBVIOUS
<1>3. Len(ms \o more) # 0 BY <1>1, <1>2
<1> QED BY <1>1, <1>3

\* Compaction keeps a transcript a transcript.
LEMMA CompactIs ==
  ASSUME NEW ms \in Seq(Messages), ms # <<>>
  PROVE  Compact(ms) \in Seq(Messages) /\ Compact(ms) # <<>>
<1>1. Head(ms) \in Messages OBVIOUS
<1>2. Latest(ms) \in Seq(Messages)
  <2>1. CASE Len(ms) > Window
    <3>1. Latest(ms) = SubSeq(ms, Len(ms) - Window + 1, Len(ms)) BY <2>1 DEF Latest
    <3>2. \A i \in Len(ms) - Window + 1 .. Len(ms) : ms[i] \in Messages
      BY <2>1, NativeAssumption
    <3> QED BY <2>1, <3>1, <3>2, NativeAssumption
  <2>2. CASE ~ (Len(ms) > Window)
    <3>1. Latest(ms) = SubSeq(ms, 1, Len(ms)) BY <2>2 DEF Latest
    <3> QED BY <3>1
  <2> QED BY <2>1, <2>2
<1>3. <<Head(ms), Summary>> \in Seq(Messages) BY <1>1, MessagesAre
<1>4. Compact(ms) \in Seq(Messages) /\ Len(Compact(ms)) = 2 + Len(Latest(ms))
  BY <1>2, <1>3 DEF Compact
<1> QED BY <1>2, <1>4

-----------------------------------------------------------------------------
(* Types.                                                                  *)

\* An attempt that ends, answers a call, or takes up a response keeps its type.
LEMMA EndIs ==
  ASSUME TypeInv, NEW how \in Reasons, End(how)
  PROVE  JobOK' /\ first' \in [Tasks -> OutcomeSet]
<1>1. job' \in AttemptSet /\ job'.messages = job.messages
  BY DEF TypeInv, JobOK, AttemptSet, End, Steps
<1>2. JobOK' BY <1>1 DEF TypeInv, JobOK
<1>3. ASSUME how \in Finished PROVE Outcome(job') \in OutcomeSet
  BY <1>1, <1>3 DEF AttemptSet, Outcome, OutcomeSet, End, TypeInv, JobOK
<1>4. first' \in [Tasks -> OutcomeSet]
  <2>1. job.task \in Tasks BY DEF TypeInv, JobOK, AttemptSet
  <2>2. CASE how \in Finished /\ first[job.task].reason = "none"
    BY <1>3, <2>1, <2>2 DEF End, TypeInv
  <2>3. CASE ~ (how \in Finished /\ first[job.task].reason = "none")
    BY <2>3 DEF End, TypeInv
  <2> QED BY <2>2, <2>3
<1> QED BY <1>2, <1>4

LEMMA RespondIs ==
  ASSUME TypeInv, NEW rp \in Responses, Respond(rp)
  PROVE  JobOK' /\ first' \in [Tasks -> OutcomeSet]
<1>1. CASE rp.calls = <<>> BY <1>1, EndIs DEF Respond, Reasons, Finished
<1>2. CASE rp.calls # <<>>
  <2>1. Says(rp.shown) \in Seq(Messages) /\ rp.calls \in CallLists BY SaysIs DEF Responses
  <2> DEFINE ms == job.messages \o Says(rp.shown)
  <2>2. ms \in Seq(Messages) /\ ms # <<>> BY <2>1, Extended DEF TypeInv, JobOK, AttemptSet
  <2>3. job' = [job EXCEPT !.step = "call", !.reply = NoReply, !.calls = rp.calls, !.messages = ms]
    BY <1>2 DEF Respond, TypeInv, JobOK, AttemptSet
  <2>4. "call" \in Steps BY DEF Steps
  <2> HIDE DEF ms
  <2>5. job' \in AttemptSet BY <2>1, <2>2, <2>3, <2>4, NoReplyIs DEF TypeInv, JobOK, AttemptSet
  <2>6. job'.messages # <<>> BY <2>2, <2>3 DEF TypeInv, JobOK, AttemptSet
  <2>7. JobOK' BY <2>5, <2>6 DEF JobOK
  <2> QED BY <1>2, <2>7 DEF Respond, TypeInv
<1> QED BY <1>1, <1>2

LEMMA AnswerIs ==
  ASSUME TypeInv, Wanted \/ (At("record") /\ job.calls # <<>> /\ job.tools < MaxToolCalls),
         NEW r \in Results \cup {0}, AnswerOrRaise(r)
  PROVE  JobOK' /\ first' \in [Tasks -> OutcomeSet]
<1>1. CASE End("raised") BY <1>1, EndIs DEF Reasons
<1>2. CASE job' = Answered(r) /\ UNCHANGED first
  <2>1. job.calls \in CallLists /\ job.calls # <<>> /\ job.tools < MaxToolCalls
    BY DEF Wanted, Calling, TypeInv, JobOK, AttemptSet
  <2>2. Call \in Calls /\ Tail(job.calls) \in CallLists BY <2>1, CallsGoOn DEF Call
  <2>3. Answer(Call, r) \in Messages BY <2>2, MessagesAre
  <2>4. Append(job.messages, Answer(Call, r)) \in Seq(Messages)
        /\ Append(job.messages, Answer(Call, r)) # <<>>
    BY <2>3, Appended DEF TypeInv, JobOK, AttemptSet
  <2>5. job.tools + 1 \in 0..MaxToolCalls
    BY <2>1, NativeAssumption DEF TypeInv, JobOK, AttemptSet
  <2>6. job' = [job EXCEPT !.step = "call", !.calls = Tail(job.calls),
                           !.tools = job.tools + 1, !.result = 0,
                           !.messages = Append(job.messages, Answer(Call, r))]
    BY <1>2 DEF Answered, TypeInv, JobOK, AttemptSet
  <2>7. "call" \in Steps BY DEF Steps
  <2>8. job' \in AttemptSet
    BY <2>2, <2>4, <2>5, <2>6, <2>7 DEF TypeInv, JobOK, AttemptSet
  <2>9. job'.messages # <<>> BY <2>4, <2>6 DEF TypeInv, JobOK, AttemptSet
  <2>10. JobOK' BY <2>8, <2>9 DEF JobOK
  <2> QED BY <1>2, <2>10 DEF TypeInv
<1> QED BY <1>1, <1>2 DEF AnswerOrRaise

\* The first state.
LEMMA InitTypes == Init => TypeInv
<1> SUFFICES ASSUME Init PROVE TypeInv OBVIOUS
<1>2. \A t \in Tasks : Attempt(t, FALSE) \in AttemptSet
  BY NoCalls, NoReplyIs, MessagesAre, NativeAssumption DEF Attempt, AttemptSet, Steps, Reasons
<1>3. JobOK
  <2>1. PICK t \in Tasks : job = [Attempt(t, FALSE) EXCEPT !.step = "over"] BY DEF Init
  <2>2. job \in AttemptSet
    <3>1. Attempt(t, FALSE) \in AttemptSet BY <1>2
    <3>2. "over" \in Steps BY DEF Steps
    <3> QED BY <2>1, <3>1, <3>2 DEF AttemptSet
  <2>3. job.messages = Prompt(t) BY <2>1 DEF Attempt
  <2> QED BY <2>2, <2>3, MessagesAre DEF JobOK
<1>4. first \in [Tasks -> OutcomeSet]
  BY MessagesAre, NativeAssumption DEF Init, NoOutcome, Outcome, Attempt, OutcomeSet
<1>5. ResponsesOK BY DEF Init, ResponsesOK
<1> QED BY <1>3, <1>4, <1>5, NativeAssumption DEF Init, TypeInv

\* What the provider answers is a response, and each call with a name that it shows is
\* among those taken from it, up to the arguments.
Covered(rp) ==
  \A n \in DOMAIN rp.shown : \A k \in DOMAIN rp.shown[n] :
    LET c == rp.shown[n][k] IN
    Named(c) => \E m \in DOMAIN rp.calls : Key(rp.calls[m]) = Key(c)

LEMMA Answering ==
  ASSUME NEW rp \in Replies, ProviderAnswers(rp)
  PROVE  \E answer \in Responses :
           Covered(answer) /\ job' = [job EXCEPT !.step = "store", !.reply = answer]
<1>1. PICK cs \in CallLists :
        /\ Normalises(cs, rp.found)
        /\ job' = [job EXCEPT !.step = "store", !.reply = [calls |-> cs, shown |-> rp.shown]]
  BY DEF ProviderAnswers
<1>2. /\ rp.found \in Seq(Calls) /\ rp.shown \in Seq(Seq(Calls))
      /\ \A n \in DOMAIN rp.shown : Range(rp.shown[n]) \subseteq Range(rp.found)
  BY NativeAssumption
<1> DEFINE answer == [calls |-> cs, shown |-> rp.shown]
<1>3. answer \in Responses BY <1>2 DEF Responses
<1>4. \A i \in DOMAIN rp.found : Named(rp.found[i]) =>
        \E m \in DOMAIN cs : Key(cs[m]) = Key(rp.found[i])
  BY <1>1 DEF Normalises
<1>5. ASSUME NEW n \in DOMAIN rp.shown, NEW k \in DOMAIN rp.shown[n], Named(rp.shown[n][k])
      PROVE  \E m \in DOMAIN cs : Key(cs[m]) = Key(rp.shown[n][k])
  <2>1. rp.shown[n][k] \in Range(rp.found) BY <1>2 DEF Range
  <2>2. PICK i \in DOMAIN rp.found : rp.found[i] = rp.shown[n][k] BY <2>1 DEF Range
  <2> QED BY <1>4, <1>5, <2>2
<1>6. Covered(answer) BY <1>5 DEF Covered
<1> QED BY <1>1, <1>3, <1>6

LEMMA NextTypes ==
  ASSUME TypeInv, CapHolds, Next
  PROVE  TypeInv'
<1> DEFINE Job == JobOK' /\ first' \in [Tasks -> OutcomeSet]
<1>1. ASSUME NEW t \in Tasks, NEW replay \in BOOLEAN, Begin(t, replay) PROVE TypeInv'
  <2>2. JobOK'
    BY <1>1, NoCalls, NoReplyIs, MessagesAre, NativeAssumption
    DEF Begin, Attempt, JobOK, AttemptSet, Steps, Reasons
  <2>3. attempts + 1 \in 0..MaxAttempts BY <1>1, NativeAssumption DEF Begin, TypeInv
  <2> QED BY <1>1, <2>2, <2>3 DEF Begin, records, TypeInv, ResponsesOK
<1>2. CASE Turn
  <2>1. job.messages \in Seq(Messages) /\ job.messages # <<>> BY DEF TypeInv, JobOK, AttemptSet
  <2>2. Compact(job.messages) \in Seq(Messages) /\ Compact(job.messages) # <<>>
    BY <2>1, CompactIs
  <2>3. CASE Bytes(job.messages) > MaxBytes
    <3>1. job' = [job EXCEPT !.step = "lookup", !.messages = Compact(job.messages)]
      BY <1>2, <2>3 DEF Turn, TypeInv, JobOK, AttemptSet
    <3>2. JobOK' BY <2>2, <3>1 DEF TypeInv, JobOK, AttemptSet, Steps
    <3> QED BY <1>2, <3>2 DEF Turn, records, TypeInv, ResponsesOK
  <2>4. CASE ~ (Bytes(job.messages) > MaxBytes)
    <3>1. job' = [job EXCEPT !.step = "lookup", !.messages = job.messages]
      BY <1>2, <2>4 DEF Turn, TypeInv, JobOK, AttemptSet
    <3>2. JobOK' BY <2>1, <3>1 DEF TypeInv, JobOK, AttemptSet, Steps
    <3> QED BY <1>2, <3>2 DEF Turn, records, TypeInv, ResponsesOK
  <2> QED BY <2>3, <2>4
<1>3. CASE CacheHit
  <2>1. Job BY <1>3, RespondIs DEF CacheHit, TypeInv, ResponsesOK
  <2> QED BY <1>3, <2>1 DEF CacheHit, records, TypeInv, ResponsesOK
<1>4. CASE CacheMiss
  <2>1. CASE job.replay
    <3>1. Job BY <1>4, <2>1, EndIs DEF CacheMiss, Reasons
    <3> QED BY <1>4, <3>1 DEF CacheMiss, records, TypeInv, ResponsesOK
  <2>2. CASE ~ job.replay
    <3>1. JobOK' BY <1>4, <2>2, ZenonT(30) DEF CacheMiss, Go, TypeInv, JobOK, AttemptSet, Steps
    <3> QED BY <1>4, <2>2, <3>1 DEF CacheMiss, records, TypeInv, ResponsesOK
  <2> QED BY <2>1, <2>2
<1>5. CASE ProviderRaises
  <2>1. Job BY <1>5, EndIs DEF ProviderRaises, Reasons
  <2> QED BY <1>5, <2>1 DEF ProviderRaises, records, TypeInv, ResponsesOK
<1>6. ASSUME NEW rp \in Replies, ProviderAnswers(rp) PROVE TypeInv'
  <2>1. PICK answer \in Responses : job' = [job EXCEPT !.step = "store", !.reply = answer]
    BY <1>6, Answering
  <2>2. JobOK' BY <2>1 DEF TypeInv, JobOK, AttemptSet, Steps
  <2> QED BY <1>6, <2>2 DEF ProviderAnswers, records, TypeInv, ResponsesOK
<1>7. CASE StoreResponse
  <2>1. job.reply \in Responses /\ job.messages \in Seq(Messages)
    BY DEF TypeInv, JobOK, AttemptSet
  <2>2. Job BY <1>7, <2>1, RespondIs DEF StoreResponse
  <2>3. ResponsesOK' BY <1>7, <2>1 DEF StoreResponse, TypeInv, ResponsesOK
  <2> QED BY <1>7, <2>2, <2>3 DEF StoreResponse, TypeInv
<1>8. CASE ToolCap
  <2>1. Job BY <1>8, EndIs DEF ToolCap, Reasons, Finished
  <2> QED BY <1>8, <2>1 DEF ToolCap, records, TypeInv, ResponsesOK
<1>9. CASE ToolHit
  <2>1. Call.tool \in Tools
    BY <1>9, CallsGoOn DEF ToolHit, Wanted, Calling, Call, TypeInv, JobOK, AttemptSet
  <2>2. results[Call.tool] \in Results \cup {0} BY <2>1 DEF TypeInv
  <2>3. Job BY <1>9, <2>2, AnswerIs DEF ToolHit
  <2> QED BY <1>9, <2>3 DEF ToolHit, records, TypeInv, ResponsesOK
<1>10. CASE ToolMiss
  <2>1. CASE job.replay
    <3>1. Job BY <1>10, <2>1, EndIs DEF ToolMiss, Reasons
    <3> QED BY <1>10, <3>1 DEF ToolMiss, records, TypeInv, ResponsesOK
  <2>2. CASE ~ job.replay /\ Call.tool \notin Known
    <3>1. Job BY <1>10, <2>2, EndIs DEF ToolMiss, Reasons
    <3> QED BY <1>10, <3>1 DEF ToolMiss, records, TypeInv, ResponsesOK
  <2>3. CASE ~ job.replay /\ Call.tool \in Known
    <3>1. Go("run") /\ UNCHANGED first BY <1>10, <2>3 DEF ToolMiss
    <3>2. JobOK' BY <3>1 DEF Go, TypeInv, JobOK, AttemptSet, Steps
    <3> QED BY <1>10, <3>1, <3>2 DEF ToolMiss, records, TypeInv, ResponsesOK
  <2> QED BY <2>1, <2>2, <2>3
<1>11. ASSUME NEW r \in Results, Execute(r) PROVE TypeInv'
  <2>1. JobOK' BY <1>11 DEF Execute, TypeInv, JobOK, AttemptSet, Steps
  <2>2. Call.tool \in Tools
    BY <1>11, CallsGoOn DEF Execute, CapHolds, Call, TypeInv, JobOK, AttemptSet
  <2>3. executed' \in [Tools -> Nat] BY <1>11, <2>2 DEF Execute, TypeInv
  <2> QED BY <1>11, <2>1, <2>3 DEF Execute, records, TypeInv, ResponsesOK
<1>12. CASE Record
  <2>1. job.result \in Results \cup {0} BY DEF TypeInv, JobOK, AttemptSet
  <2>2. Job BY <1>12, <2>1, AnswerIs DEF Record, CapHolds
  <2> QED BY <1>12, <2>1, <2>2 DEF Record, TypeInv, ResponsesOK
<1>13. CASE ToolsDone
  <2>1. CASE job.turn = MaxTurns
    <3>1. Job BY <1>13, <2>1, EndIs DEF ToolsDone, Reasons, Finished
    <3> QED BY <1>13, <3>1 DEF ToolsDone, records, TypeInv, ResponsesOK
  <2>2. CASE job.turn # MaxTurns
    <3>1. job.turn + 1 \in 1..MaxTurns
      BY <2>2, NativeAssumption DEF TypeInv, JobOK, AttemptSet
    <3>2. job' = [job EXCEPT !.step = "turn", !.turn = job.turn + 1]
      BY <1>13, <2>2 DEF ToolsDone, TypeInv, JobOK, AttemptSet
    <3>3. "turn" \in Steps BY DEF Steps
    <3>4. job' \in AttemptSet BY <3>1, <3>2, <3>3 DEF TypeInv, JobOK, AttemptSet
    <3>5. job'.messages # <<>> BY <3>2 DEF TypeInv, JobOK, AttemptSet
    <3>6. JobOK' BY <3>4, <3>5 DEF JobOK
    <3> QED BY <1>13, <2>2, <3>6 DEF ToolsDone, records, TypeInv, ResponsesOK
  <2> QED BY <2>1, <2>2
<1>14. CASE Dies
  <2>1. Job BY <1>14, EndIs DEF Dies, Reasons
  <2>2. crashes + 1 \in 0..MaxCrashes BY <1>14, NativeAssumption DEF Dies, TypeInv
  <2> QED BY <1>14, <2>1, <2>2 DEF Dies, records, TypeInv, ResponsesOK
<1> QED
  BY <1>1, <1>2, <1>3, <1>4, <1>5, <1>6, <1>7, <1>8, <1>9, <1>10, <1>11, <1>12, <1>13, <1>14
  DEF Next

-----------------------------------------------------------------------------
(* Executions.                                                             *)

\* Where an attempt goes when it ends, responds, or has an answer.
LEMMA Leaves ==
  ASSUME TypeInv
  PROVE  /\ \A how : End(how) => job'.step = "over"
         /\ \A rp : Respond(rp) => job'.step \in {"call", "over"}
         /\ \A r : AnswerOrRaise(r) => job'.step \in {"call", "over"}
<1>1. ASSUME NEW how, End(how) PROVE job'.step = "over"
  BY <1>1 DEF End, TypeInv, JobOK, AttemptSet
<1>2. ASSUME NEW rp, Respond(rp) PROVE job'.step \in {"call", "over"}
  BY <1>1, <1>2 DEF Respond, TypeInv, JobOK, AttemptSet
<1>3. ASSUME NEW r, AnswerOrRaise(r) PROVE job'.step \in {"call", "over"}
  BY <1>1, <1>3 DEF AnswerOrRaise, Answered, TypeInv, JobOK, AttemptSet
<1> QED BY <1>1, <1>2, <1>3

\* A step that neither runs a tool nor records its result disturbs nothing, and a
\* death pays for the execution that it may lose.
LEMMA Quiet ==
  ASSUME TypeInv, OnceInv, UNCHANGED <<results, executed>>, job'.step \notin {"run", "record"},
         (crashes' = crashes /\ ~ At("record")) \/ crashes' = crashes + 1
  PROVE  OnceInv'
<1>1. ~ At("run")' /\ ~ At("record")' BY DEF At
<1>2. CapHolds' /\ ToolAtHand' BY <1>1 DEF CapHolds, ToolAtHand
<1>3. ASSUME NEW c \in Tools
      PROVE  executed'[c] <= crashes' + (IF results'[c] # 0 THEN 1 ELSE 0)
  <2>1. executed[c] \in Nat /\ crashes \in Nat BY DEF TypeInv
  <2>2. executed[c] <= crashes + (IF results[c] # 0 \/ Holding(c) THEN 1 ELSE 0)
    BY DEF OnceInv, Accounted
  <2>3. CASE crashes' = crashes /\ ~ At("record") BY <2>1, <2>2, <2>3 DEF Holding
  <2>4. CASE crashes' = crashes + 1 BY <2>1, <2>2, <2>4
  <2> QED BY <2>3, <2>4
<1>4. Accounted' BY <1>1, <1>3 DEF Accounted, Holding
<1> QED BY <1>2, <1>4 DEF OnceInv

LEMMA InitOnce == Init => OnceInv
<1> SUFFICES ASSUME Init PROVE OnceInv OBVIOUS
<1>1. job.step = "over" BY DEF Init, Attempt
<1>2. CapHolds /\ ToolAtHand BY <1>1 DEF At, CapHolds, ToolAtHand
<1>3. Accounted BY DEF Init, Accounted
<1> QED BY <1>2, <1>3 DEF OnceInv

LEMMA NextOnce ==
  ASSUME TypeInv, OnceInv, Next
  PROVE  OnceInv'
<1> USE DEF At
<1>1. ASSUME NEW t \in Tasks, NEW replay \in BOOLEAN, Begin(t, replay) PROVE OnceInv'
  BY <1>1, Quiet DEF Begin, Attempt, records
<1>2. CASE Turn
  <2>1. job'.step = "lookup" BY <1>2 DEF Turn, TypeInv, JobOK, AttemptSet
  <2> QED BY <1>2, <2>1, Quiet DEF Turn, records
<1>3. CASE CacheHit BY <1>3, Leaves, Quiet DEF CacheHit, records
<1>4. CASE CacheMiss
  <2>1. job'.step \in {"over", "ask"}
    BY <1>4, Leaves DEF CacheMiss, Go, TypeInv, JobOK, AttemptSet
  <2> QED BY <1>4, <2>1, Quiet DEF CacheMiss, records
<1>5. CASE ProviderRaises BY <1>5, Leaves, Quiet DEF ProviderRaises, records
<1>6. ASSUME NEW rp \in Replies, ProviderAnswers(rp) PROVE OnceInv'
  <2>1. job'.step = "store" BY <1>6 DEF ProviderAnswers, TypeInv, JobOK, AttemptSet
  <2> QED BY <1>6, <2>1, Quiet DEF ProviderAnswers, records
<1>7. CASE StoreResponse BY <1>7, Leaves, Quiet DEF StoreResponse
<1>8. CASE ToolCap BY <1>8, Leaves, Quiet DEF ToolCap, Calling, records
<1>9. CASE ToolHit BY <1>9, Leaves, Quiet DEF ToolHit, Wanted, Calling, records
<1>10. CASE ToolMiss
  <2>1. CASE job'.step = "over"
    BY <1>10, <2>1, Quiet DEF ToolMiss, Wanted, Calling, records
  <2>2. CASE Go("run")
    <3>1. job'.step = "run" /\ job'.calls = job.calls /\ job'.tools = job.tools
      BY <2>2 DEF Go, TypeInv, JobOK, AttemptSet
    <3>2. CapHolds' BY <1>10, <3>1 DEF CapHolds, ToolMiss, Wanted, Calling
    <3>3. ToolAtHand'
      BY <1>10, <3>1 DEF ToolAtHand, ToolMiss, Wanted, Calling, Call, records
    <3>4. Accounted'
      BY <1>10, <3>1 DEF OnceInv, Accounted, Holding, ToolMiss, Wanted, Calling, records
    <3> QED BY <3>2, <3>3, <3>4 DEF OnceInv
  <2> QED BY <1>10, <2>1, <2>2, Leaves DEF ToolMiss
<1>11. ASSUME NEW r \in Results, Execute(r) PROVE OnceInv'
  <2>1. /\ job'.step = "record" /\ job'.calls = job.calls /\ job'.tools = job.tools
        /\ job'.result = r
    BY <1>11 DEF Execute, TypeInv, JobOK, AttemptSet
  <2>2. CapHolds' BY <1>11, <2>1 DEF CapHolds, OnceInv, Execute
  <2>3. ToolAtHand' BY <1>11, <2>1 DEF ToolAtHand, OnceInv, Execute, Call, records
  <2>4. ASSUME NEW c \in Tools
        PROVE  executed'[c] <= crashes + (IF results[c] # 0 \/ Call.tool = c THEN 1 ELSE 0)
    <3>1. executed[c] \in Nat /\ crashes \in Nat BY DEF TypeInv
    <3>2. executed[c] <= crashes + (IF results[c] # 0 THEN 1 ELSE 0)
      BY <1>11 DEF OnceInv, Accounted, Holding, Execute
    <3>3. CASE c = Call.tool
      <4>1. results[c] = 0 BY <1>11, <3>3 DEF OnceInv, ToolAtHand, Execute
      <4>2. executed'[c] = executed[c] + 1 BY <1>11, <3>3 DEF Execute, TypeInv
      <4> QED BY <3>1, <3>2, <3>3, <4>1, <4>2
    <3>4. CASE c # Call.tool
      <4>1. executed'[c] = executed[c] BY <1>11, <3>4 DEF Execute, TypeInv
      <4> QED BY <3>1, <3>2, <3>4, <4>1
    <3> QED BY <3>3, <3>4
  <2>5. Accounted' BY <1>11, <2>1, <2>4 DEF Accounted, Holding, Call, Execute, records
  <2> QED BY <2>2, <2>3, <2>5 DEF OnceInv
<1>12. CASE Record
  <2>1. job'.step \in {"call", "over"} BY <1>12, Leaves DEF Record
  <2>2. CapHolds' /\ ToolAtHand' BY <2>1 DEF CapHolds, ToolAtHand
  <2>3. job.result # 0 BY <1>12, NativeAssumption DEF Record, OnceInv, ToolAtHand
  <2>4. ASSUME NEW c \in Tools
        PROVE  results[c] # 0 \/ Holding(c) => results'[c] # 0
    BY <1>12, <2>3 DEF Record, Holding, TypeInv
  <2>5. ASSUME NEW c \in Tools
        PROVE  executed[c] <= crashes + (IF results'[c] # 0 THEN 1 ELSE 0)
    <3>1. executed[c] \in Nat /\ crashes \in Nat BY DEF TypeInv
    <3>2. executed[c] <= crashes + (IF results[c] # 0 \/ Holding(c) THEN 1 ELSE 0)
      BY DEF OnceInv, Accounted
    <3> QED BY <2>4, <3>1, <3>2
  <2>6. Accounted' BY <1>12, <2>1, <2>5 DEF Accounted, Holding, Record
  <2> QED BY <2>2, <2>6 DEF OnceInv
<1>13. CASE ToolsDone
  <2>1. job'.step \in {"over", "turn"}
    BY <1>13, Leaves DEF ToolsDone, TypeInv, JobOK, AttemptSet
  <2> QED BY <1>13, <2>1, Quiet DEF ToolsDone, records
<1>14. CASE Dies BY <1>14, Leaves, Quiet DEF Dies, records
<1> QED
  BY <1>1, <1>2, <1>3, <1>4, <1>5, <1>6, <1>7, <1>8, <1>9, <1>10, <1>11, <1>12, <1>13, <1>14
  DEF Next

-----------------------------------------------------------------------------
\* The two are inductive together: the answers of an attempt stay within the
\* cap because it is tested before the tool at hand is run.
LEMMA Inductive == Spec => [](TypeInv /\ OnceInv)
<1>1. Init => TypeInv /\ OnceInv BY InitTypes, InitOnce
<1>2. TypeInv /\ OnceInv /\ [Next]_vars => (TypeInv /\ OnceInv)'
  <2>1. ASSUME TypeInv, OnceInv, Next PROVE (TypeInv /\ OnceInv)'
    BY <2>1, NextTypes, NextOnce DEF OnceInv
  <2>2. ASSUME TypeInv, OnceInv, UNCHANGED vars PROVE (TypeInv /\ OnceInv)'
    <3>1. TypeInv' BY <2>2 DEF vars, TypeInv, ResponsesOK, JobOK
    <3>2. OnceInv'
      BY <2>2 DEF vars, OnceInv, CapHolds, ToolAtHand, Accounted, Holding, At, Call
    <3> QED BY <3>1, <3>2
  <2> QED BY <2>1, <2>2
<1> QED BY <1>1, <1>2, PTL DEF Spec

\* Every variable keeps its type; among them the caps on turns and tool calls,
\* which ProviderBackedAgentRunner.run tests in two loops, one in the other.
THEOREM TypesCorrect == Spec => []TypeOK
<1>1. TypeInv => TypeOK
  BY DEF TypeInv, TypeOK, ResponsesOK, JobOK, AttemptSet, OutcomeSet
<1> QED BY <1>1, Inductive, PTL

\* A tool call is executed once, and once more for each death at most, however
\* many attempts there are, and whatever provider and hooks do.
THEOREM ToolsRunOnce == Spec => []ToolRunsOnce
<1>1. TypeInv /\ OnceInv => ToolRunsOnce
  <2> SUFFICES ASSUME TypeInv, OnceInv, NEW c \in Tools PROVE executed[c] <= 1 + crashes
    BY DEF ToolRunsOnce
  <2>1. executed[c] \in Nat /\ crashes \in Nat BY DEF TypeInv
  <2> QED BY <2>1 DEF OnceInv, Accounted
<1> QED BY <1>1, Inductive, PTL

-----------------------------------------------------------------------------
(* Where an attempt is, as far as the records decide where it goes next:   *)
(* asking is still looking up, and running a tool still its call.          *)

Places ==
  [step : {"turn", "lookup", "call", "over"}, turn : 1..MaxTurns, tools : 0..MaxToolCalls,
   messages : Seq(Messages), calls : CallLists, reason : Finished \cup {"none"}]

Spot(step, turn, tools, messages, calls, reason) ==
  [step |-> step, turn |-> turn, tools |-> tools, messages |-> messages, calls |-> calls,
   reason |-> reason]

Place(j) ==
  Spot(IF j.step \in {"ask", "store"} THEN "lookup"
       ELSE IF j.step \in {"run", "record"} THEN "call" ELSE j.step,
       j.turn, j.tools, j.messages,
       IF j.step \in {"call", "run", "record"} THEN j.calls ELSE <<>>, j.reason)

Begun(t) == Place(Attempt(t, FALSE))
EndOf(o) == Spot("over", o.turn, o.tools, o.messages, <<>>, o.reason)
Ended(c, how) == Spot("over", c.turn, c.tools, c.messages, <<>>, how)

\* `d` comes after `c` when responses `q` and results `s` are on record.
Follows(q, s, c, d) ==
  \/ /\ c.step = "turn"
     /\ d = Spot("lookup", c.turn, c.tools,
                 IF Bytes(c.messages) > MaxBytes THEN Compact(c.messages) ELSE c.messages,
                 c.calls, c.reason)
  \/ /\ c.step = "lookup" /\ c.messages \in DOMAIN q
     /\ LET rp == q[c.messages] IN
        \/ rp.calls = <<>> /\ d = Ended(c, "final")
        \/ /\ rp.calls # <<>>
           /\ d = Spot("call", c.turn, c.tools, c.messages \o Says(rp.shown), rp.calls, c.reason)
  \/ /\ c.step = "call" /\ c.calls = <<>>
     /\ \/ c.turn = MaxTurns /\ d = Ended(c, "max_turns")
        \/ /\ c.turn # MaxTurns
           /\ d = Spot("turn", c.turn + 1, c.tools, c.messages, <<>>, c.reason)
  \/ /\ c.step = "call" /\ c.calls # <<>>
     /\ \/ c.tools = MaxToolCalls /\ d = Ended(c, "max_tool_calls")
        \/ /\ c.tools # MaxToolCalls /\ s[Head(c.calls).tool] # 0
           /\ d = Spot("call", c.turn, c.tools + 1,
                       Append(c.messages, Answer(Head(c.calls), s[Head(c.calls).tool])),
                       Tail(c.calls), c.reason)

Stuck(q, s, c) == \A d \in Places : ~ Follows(q, s, c, d)

Closed(q, s, S) == \A c \in S, d \in Places : c \in Places /\ Follows(q, s, c, d) => d \in S

\* An attempt that the records alone lead on comes from `x` to `y`.
Reached(q, s, x, y) == \A S : x \in S /\ Closed(q, s, S) => y \in S

\* Records are added to, never changed.
Grown(q, s, q2, s2) ==
  /\ \A ms \in DOMAIN q : ms \in DOMAIN q2 /\ q2[ms] = q[ms]
  /\ \A c \in Tools : s[c] # 0 => s2[c] = s[c]

-----------------------------------------------------------------------------
\* The records leave no choice.
LEMMA Deterministic ==
  ASSUME NEW q, NEW s, NEW c, NEW d, NEW e, Follows(q, s, c, d), Follows(q, s, c, e)
  PROVE  d = e
BY DEF Follows

\* An end leads nowhere.
LEMMA EndsStick ==
  ASSUME NEW q, NEW s, NEW c, c.step = "over"
  PROVE  Stuck(q, s, c)
BY DEF Stuck, Follows

\* A place is on the way from itself,
LEMMA ReachedSelf == ASSUME NEW q, NEW s, NEW x PROVE Reached(q, s, x, x)
BY DEF Reached

\* and what comes after a place on the way is on it too.
LEMMA ReachedNext ==
  ASSUME NEW q, NEW s, NEW x, NEW y \in Places, NEW z \in Places,
         Reached(q, s, x, y), Follows(q, s, y, z)
  PROVE  Reached(q, s, x, z)
<1> SUFFICES ASSUME NEW S, x \in S, Closed(q, s, S) PROVE z \in S BY DEF Reached
<1>1. y \in S BY DEF Reached
<1> QED BY <1>1 DEF Closed

\* Growing records lead wherever they led before.
LEMMA FollowsStill ==
  ASSUME NEW q, NEW s, NEW q2, NEW s2, Grown(q, s, q2, s2),
         NEW c \in Places, NEW d, Follows(q, s, c, d)
  PROVE  Follows(q2, s2, c, d)
<1>1. CASE c.step = "turn" BY <1>1 DEF Follows
<1>2. CASE c.step = "lookup"
  <2>1. c.messages \in DOMAIN q BY <1>2 DEF Follows
  <2>2. c.messages \in DOMAIN q2 /\ q2[c.messages] = q[c.messages] BY <2>1 DEF Grown
  <2> QED BY <1>2, <2>1, <2>2 DEF Follows
<1>3. CASE c.step = "call" /\ c.calls = <<>> BY <1>3 DEF Follows
<1>4. CASE c.step = "call" /\ c.calls # <<>>
  <2>1. Head(c.calls).tool \in Tools BY <1>4, CallsGoOn DEF Places
  <2>2. s[Head(c.calls).tool] # 0 => s2[Head(c.calls).tool] = s[Head(c.calls).tool] BY <2>1 DEF Grown
  <2> QED BY <1>4, <2>2 DEF Follows
<1> QED BY <1>1, <1>2, <1>3, <1>4 DEF Follows

\* So what was on the way stays on it.
LEMMA ReachedStill ==
  ASSUME NEW q, NEW s, NEW q2, NEW s2, Grown(q, s, q2, s2), NEW x, NEW y, Reached(q, s, x, y)
  PROVE  Reached(q2, s2, x, y)
<1> SUFFICES ASSUME NEW S, x \in S, Closed(q2, s2, S) PROVE y \in S BY DEF Reached
<1>1. Closed(q, s, S) BY FollowsStill DEF Closed
<1> QED BY <1>1 DEF Reached

\* From where the records lead no further nothing else is reached.
LEMMA StuckStays ==
  ASSUME NEW q, NEW s, NEW x, Stuck(q, s, x), NEW y, Reached(q, s, x, y)
  PROVE  y = x
<1>1. Closed(q, s, {x}) BY DEF Closed, Stuck
<1> QED BY <1>1 DEF Reached

\* Where the records end is reached from every place on the way.
LEMMA EndsMeet ==
  ASSUME NEW q, NEW s, NEW x \in Places, NEW y, NEW f \in Places,
         Reached(q, s, x, y), Reached(q, s, x, f), Stuck(q, s, f)
  PROVE  Reached(q, s, y, f)
<1> DEFINE D == {z \in Places : Reached(q, s, z, f)}
<1>1. Closed(q, s, D)
  <2> SUFFICES ASSUME NEW c \in D, NEW d \in Places, Follows(q, s, c, d)
               PROVE  Reached(q, s, d, f)
    BY DEF Closed
  <2> DEFINE E == {c} \cup {z \in Places : Reached(q, s, d, z)}
  <2>1. c \in Places /\ Reached(q, s, c, f) OBVIOUS
  <2>2. c # f BY DEF Stuck
  <2>3. ASSUME NEW u \in E, NEW v \in Places, u \in Places, Follows(q, s, u, v) PROVE v \in E
    <3>1. CASE u = c
      <4>1. v = d BY <2>3, <3>1, Deterministic
      <4> QED BY <4>1, ReachedSelf
    <3>2. CASE u # c
      <4>1. Reached(q, s, d, u) BY <3>2
      <4>2. Reached(q, s, d, v) BY <2>3, <4>1, ReachedNext
      <4> QED BY <4>2
    <3> QED BY <3>1, <3>2
  <2>4. Closed(q, s, E) BY <2>3 DEF Closed
  <2>5. f \in E BY <2>1, <2>4 DEF Reached
  <2> QED BY <2>2, <2>5
<1>2. x \in D OBVIOUS
<1>3. y \in D BY <1>1, <1>2 DEF Reached
<1> QED BY <1>3

\* So two ends are one, and what is stuck is the end.
LEMMA OneEnd ==
  ASSUME NEW q, NEW s, NEW x \in Places, NEW y, NEW f \in Places,
         Reached(q, s, x, y), Stuck(q, s, y), Reached(q, s, x, f), Stuck(q, s, f)
  PROVE  y = f
<1>1. Reached(q, s, y, f) BY EndsMeet
<1> QED BY <1>1, StuckStays

-----------------------------------------------------------------------------
(* What a step does to an attempt.                                         *)

\* Nothing is on record for what is asked, and an attempt under way has no outcome.
Unasked == job.step \in {"ask", "store"} => job.messages \notin DOMAIN responses
Undecided == ~ At("over") => job.reason = "none"

\* Places have their types.
LEMMA PlaceIs ==
  ASSUME NEW j \in AttemptSet, j.reason \in Finished \cup {"none"}
  PROVE  Place(j) \in Places
<1>1. <<>> \in CallLists BY NoCalls
<1>2. (IF j.step \in {"call", "run", "record"} THEN j.calls ELSE <<>>) \in CallLists
  BY <1>1 DEF AttemptSet
<1>3. (IF j.step \in {"ask", "store"} THEN "lookup"
       ELSE IF j.step \in {"run", "record"} THEN "call" ELSE j.step)
      \in {"turn", "lookup", "call", "over"}
  BY DEF AttemptSet, Steps
<1> QED BY <1>2, <1>3 DEF Place, Spot, Places, AttemptSet

\* So has the place where an attempt begins.
LEMMA BegunIs == ASSUME NEW t \in Tasks PROVE Begun(t) \in Places
<1>1. Attempt(t, FALSE) \in AttemptSet /\ Attempt(t, FALSE).reason = "none"
  BY NoCalls, NoReplyIs, MessagesAre, NativeAssumption DEF Attempt, AttemptSet, Steps, Reasons
<1> QED BY <1>1, PlaceIs DEF Begun

\* An attempt goes on, or finishes, where its records lead,
Forward ==
  /\ job'.task = job.task
  /\ \/ job'.step # "over" /\ job'.reason = "none" /\ UNCHANGED first
     \/ /\ job'.step = "over" /\ job'.reason \in Finished
        /\ first' = IF first[job.task].reason = "none"
                    THEN [first EXCEPT ![job.task] = Outcome(job')] ELSE first
  /\ Place(job') = Place(job) \/ Follows(responses', results', Place(job), Place(job'))

\* or it is given up: a replay only where the records lead no further.
GivenUp ==
  /\ job'.step = "over" /\ job'.task = job.task /\ job'.reason \notin Finished
  /\ UNCHANGED first
  /\ job'.reason = "missed" => UNCHANGED records /\ Stuck(responses, results, Place(job))

\* An attempt that finishes goes where the records lead if they end there.
LEMMA FinishForward ==
  ASSUME TypeInv, ~ At("over"), NEW how \in Finished, End(how),
         Follows(responses', results', Place(job), Ended(Place(job), how))
  PROVE  Forward
<1>1. job' = [job EXCEPT !.step = "over", !.reason = how] BY DEF End
<1>2. /\ job'.task = job.task /\ job'.step = "over" /\ job'.reason = how
      /\ job'.turn = job.turn /\ job'.tools = job.tools /\ job'.messages = job.messages
  BY <1>1 DEF TypeInv, JobOK, AttemptSet
<1>3. Place(job') = Ended(Place(job), how) BY <1>2 DEF Place, Ended, Spot
<1>4. first' = IF first[job.task].reason = "none"
               THEN [first EXCEPT ![job.task] = Outcome(job')] ELSE first
  BY DEF End
<1> QED BY <1>2, <1>3, <1>4 DEF Forward

\* Every other end gives the attempt up.
LEMMA GiveUp ==
  ASSUME TypeInv, NEW how, how \notin Finished, End(how),
         how = "missed" => UNCHANGED records /\ Stuck(responses, results, Place(job))
  PROVE  GivenUp
<1>1. job'.task = job.task /\ job'.step = "over" /\ job'.reason = how
  BY DEF End, TypeInv, JobOK, AttemptSet
<1> QED BY <1>1 DEF GivenUp, End

\* A response that is on record, just now or before, is followed.
LEMMA RespondForward ==
  ASSUME TypeInv, Undecided, At("lookup") \/ At("store"), NEW rp \in Responses, Respond(rp),
         job.messages \in DOMAIN responses', responses'[job.messages] = rp
  PROVE  Forward
<1> DEFINE c == Place(job)
<1>1. /\ c.step = "lookup" /\ c.messages = job.messages /\ c.turn = job.turn
      /\ c.tools = job.tools /\ c.reason = job.reason /\ ~ At("over")
  BY DEF Place, Spot, At
<1> HIDE DEF c
<1>2. CASE rp.calls = <<>>
  <2>1. Follows(responses', results', c, Ended(c, "final")) BY <1>1, <1>2 DEF Follows
  <2> QED BY <1>1, <1>2, <2>1, FinishForward DEF Respond, Finished, c
<1>3. CASE rp.calls # <<>>
  <2> DEFINE ms == job.messages \o Says(rp.shown)
  <2>1. /\ job' = [job EXCEPT !.step = "call", !.reply = NoReply, !.calls = rp.calls,
                              !.messages = ms]
        /\ UNCHANGED first
    BY <1>3 DEF Respond, TypeInv, JobOK, AttemptSet
  <2> HIDE DEF ms
  <2>2. /\ job'.step = "call" /\ job'.task = job.task /\ job'.reason = job.reason
        /\ job'.turn = job.turn /\ job'.tools = job.tools /\ job'.calls = rp.calls
        /\ job'.messages = ms
    BY <2>1 DEF TypeInv, JobOK, AttemptSet
  <2>3. Place(job') = Spot("call", c.turn, c.tools, ms, rp.calls, c.reason)
    BY <1>1, <2>2 DEF Place
  <2>4. ms = c.messages \o Says(responses'[c.messages].shown) BY <1>1 DEF ms
  <2>5. Follows(responses', results', c, Place(job')) BY <1>1, <1>3, <2>3, <2>4 DEF Follows
  <2> QED BY <1>1, <2>1, <2>2, <2>5 DEF Forward, Undecided, c
<1> QED BY <1>2, <1>3

\* So is the answer of a tool, unless the hook behind it raises.
LEMMA AnswerForward ==
  ASSUME TypeInv, Undecided, At("call") \/ At("record"), job.calls # <<>>,
         job.tools # MaxToolCalls, NEW r, r # 0, results'[Call.tool] = r, AnswerOrRaise(r)
  PROVE  Forward \/ GivenUp
<1>1. CASE End("raised") BY <1>1, GiveUp DEF Finished
<1>2. CASE job' = Answered(r) /\ UNCHANGED first
  <2> DEFINE c == Place(job)
  <2>1. /\ c.step = "call" /\ c.messages = job.messages /\ c.calls = job.calls
        /\ c.turn = job.turn /\ c.tools = job.tools /\ c.reason = job.reason /\ ~ At("over")
    BY DEF Place, Spot, At
  <2> HIDE DEF c
  <2>2. /\ job'.step = "call" /\ job'.task = job.task /\ job'.reason = job.reason
        /\ job'.turn = job.turn /\ job'.tools = job.tools + 1 /\ job'.calls = Tail(job.calls)
        /\ job'.messages = Append(job.messages, Answer(Call, r))
    BY <1>2 DEF Answered, TypeInv, JobOK, AttemptSet
  <2>3. Place(job') = Spot("call", c.turn, c.tools + 1,
                           Append(c.messages, Answer(Head(c.calls), r)), Tail(c.calls), c.reason)
    BY <2>1, <2>2 DEF Place, Call
  <2>4. results'[Head(c.calls).tool] = r BY <2>1 DEF Call
  <2>5. Follows(responses', results', c, Place(job')) BY <2>1, <2>3, <2>4 DEF Follows
  <2> QED BY <1>2, <2>1, <2>2, <2>5 DEF Forward, Undecided, c
<1> QED BY <1>1, <1>2 DEF AnswerOrRaise

\* Where an attempt only waits, its place is the same.
LEMMA WaitsForward ==
  ASSUME TypeInv, Undecided, ~ At("over"), UNCHANGED first,
         \/ job.step = "lookup" /\ Go("ask")
         \/ job.step = "ask" /\ \E rp : job' = [job EXCEPT !.step = "store", !.reply = rp]
         \/ job.step = "call" /\ Go("run")
         \/ job.step = "run" /\ \E r : job' = [job EXCEPT !.step = "record", !.result = r]
  PROVE  Forward
<1>1. CASE job.step = "lookup" /\ Go("ask")
  BY <1>1 DEF Go, Forward, Undecided, Place, TypeInv, JobOK, AttemptSet
<1>2. CASE job.step = "ask" /\ \E rp : job' = [job EXCEPT !.step = "store", !.reply = rp]
  <2>1. PICK rp : job' = [job EXCEPT !.step = "store", !.reply = rp] BY <1>2
  <2> QED BY <1>2, <2>1 DEF Forward, Undecided, Place, TypeInv, JobOK, AttemptSet
<1>3. CASE job.step = "call" /\ Go("run")
  BY <1>3 DEF Go, Forward, Undecided, Place, TypeInv, JobOK, AttemptSet
<1>4. CASE job.step = "run" /\ \E r : job' = [job EXCEPT !.step = "record", !.result = r]
  <2>1. PICK r : job' = [job EXCEPT !.step = "record", !.result = r] BY <1>4
  <2> QED BY <1>4, <2>1 DEF Forward, Undecided, Place, TypeInv, JobOK, AttemptSet
<1> QED BY <1>1, <1>2, <1>3, <1>4

\* Every step of an attempt goes on or gives up, and only adds to the records.
LEMMA StepMoves ==
  ASSUME TypeInv, OnceInv, Unasked, Undecided, Next, ~ At("over")
  PROVE  /\ Forward \/ GivenUp
         /\ Grown(responses, results, responses', results')
         /\ Unasked'
<1> USE DEF At
<1>1. ASSUME UNCHANGED records PROVE Grown(responses, results, responses', results')
  BY <1>1 DEF Grown, records
<1>2. CASE Turn
  <2> DEFINE c == Place(job)
             ms == IF Bytes(job.messages) > MaxBytes THEN Compact(job.messages)
                   ELSE job.messages
  <2>1. job' = [job EXCEPT !.step = "lookup", !.messages = ms] /\ UNCHANGED <<records, first>>
    BY <1>2 DEF Turn, TypeInv, JobOK, AttemptSet
  <2>2. /\ c.step = "turn" /\ c.messages = job.messages /\ c.calls = <<>>
        /\ c.turn = job.turn /\ c.tools = job.tools /\ c.reason = job.reason
    BY <1>2 DEF Place, Spot, Turn
  <2> HIDE DEF ms
  <2>3. /\ job'.step = "lookup" /\ job'.task = job.task /\ job'.reason = job.reason
        /\ job'.turn = job.turn /\ job'.tools = job.tools /\ job'.messages = ms
    BY <2>1 DEF TypeInv, JobOK, AttemptSet
  <2>4. Place(job') = Spot("lookup", job.turn, job.tools, ms, <<>>, job.reason)
    BY <2>3 DEF Place
  <2> HIDE DEF c
  <2>5. Place(job') = Spot("lookup", c.turn, c.tools,
                          IF Bytes(c.messages) > MaxBytes THEN Compact(c.messages)
                          ELSE c.messages, c.calls, c.reason)
    BY <2>2, <2>4 DEF ms
  <2>6. Follows(responses', results', c, Place(job')) BY <2>2, <2>5 DEF Follows
  <2>7. Forward BY <2>1, <2>3, <2>6 DEF Forward, Undecided, c
  <2> QED BY <1>1, <2>1, <2>3, <2>7 DEF Unasked
<1>3. CASE CacheHit
  <2>1. Forward BY <1>3, RespondForward DEF CacheHit, records, TypeInv, ResponsesOK
  <2>2. job'.step \in {"call", "over"} BY <1>3, Leaves DEF CacheHit
  <2> QED BY <1>1, <1>3, <2>1, <2>2 DEF CacheHit, Unasked
<1>4. CASE CacheMiss
  <2>1. CASE job.replay
    <3>1. Stuck(responses, results, Place(job))
      BY <1>4 DEF CacheMiss, Stuck, Follows, Place, Spot
    <3>2. GivenUp BY <1>4, <2>1, <3>1, GiveUp DEF CacheMiss, Finished
    <3> QED BY <1>1, <1>4, <3>2 DEF CacheMiss, GivenUp, Unasked
  <2>2. CASE ~ job.replay
    <3>1. Forward BY <1>4, <2>2, WaitsForward DEF CacheMiss
    <3>2. job'.messages = job.messages BY <1>4, <2>2 DEF CacheMiss, Go, TypeInv, JobOK, AttemptSet
    <3> QED BY <1>1, <1>4, <3>1, <3>2 DEF CacheMiss, Unasked, records
  <2> QED BY <2>1, <2>2
<1>5. CASE ProviderRaises
  <2>1. GivenUp BY <1>5, GiveUp DEF ProviderRaises, Finished
  <2> QED BY <1>1, <1>5, <2>1 DEF ProviderRaises, GivenUp, Unasked
<1>6. ASSUME NEW rp \in Replies, ProviderAnswers(rp)
      PROVE  /\ Forward \/ GivenUp
             /\ Grown(responses, results, responses', results')
             /\ Unasked'
  <2>1. Forward BY <1>6, WaitsForward DEF ProviderAnswers
  <2>2. job'.messages = job.messages BY <1>6 DEF ProviderAnswers, TypeInv, JobOK, AttemptSet
  <2> QED BY <1>1, <1>6, <2>1, <2>2 DEF ProviderAnswers, Unasked, records
<1>7. CASE StoreResponse
  <2>1. job.messages \in DOMAIN responses' /\ responses'[job.messages] = job.reply
    BY <1>7 DEF StoreResponse
  <2>2. Forward
    BY <1>7, <2>1, RespondForward DEF StoreResponse, TypeInv, JobOK, AttemptSet
  <2>3. \A ms \in DOMAIN responses : ms \in DOMAIN responses' /\ responses'[ms] = responses[ms]
    BY <1>7 DEF StoreResponse, Unasked
  <2>4. job'.step \in {"call", "over"} BY <1>7, Leaves DEF StoreResponse
  <2> QED BY <1>7, <2>2, <2>3, <2>4 DEF StoreResponse, Grown, Unasked
<1>8. CASE ToolCap
  <2>1. Follows(responses', results', Place(job), Ended(Place(job), "max_tool_calls"))
    BY <1>8 DEF ToolCap, Calling, Follows, Place, Spot
  <2>2. Forward BY <1>8, <2>1, FinishForward DEF ToolCap, Finished
  <2>3. job'.step = "over" BY <1>8, Leaves DEF ToolCap
  <2> QED BY <1>1, <1>8, <2>2, <2>3 DEF ToolCap, Unasked
<1>9. CASE ToolHit
  <2>1. job.tools # MaxToolCalls
    BY <1>9, NativeAssumption DEF ToolHit, Wanted, TypeInv, JobOK, AttemptSet
  <2>2. Forward \/ GivenUp
    BY <1>9, <2>1, AnswerForward DEF ToolHit, Wanted, Calling, records
  <2>3. job'.step \in {"call", "over"} BY <1>9, Leaves DEF ToolHit
  <2> QED BY <1>1, <1>9, <2>2, <2>3 DEF ToolHit, Unasked
<1>10. CASE ToolMiss
  <2>0. job.tools # MaxToolCalls
    BY <1>10, NativeAssumption DEF ToolMiss, Wanted, TypeInv, JobOK, AttemptSet
  <2>1. CASE End("missed")
    <3>1. Stuck(responses, results, Place(job))
      BY <1>10, <2>0 DEF ToolMiss, Wanted, Calling, Call, Stuck, Follows, Place, Spot
    <3>2. GivenUp BY <1>10, <2>1, <3>1, GiveUp DEF ToolMiss, Finished
    <3> QED BY <1>1, <1>10, <3>2 DEF ToolMiss, GivenUp, Unasked
  <2>2. CASE End("raised")
    <3>1. GivenUp BY <2>2, GiveUp DEF Finished
    <3> QED BY <1>1, <1>10, <3>1 DEF ToolMiss, GivenUp, Unasked
  <2>3. CASE Go("run") /\ UNCHANGED first
    <3>1. Forward BY <1>10, <2>3, WaitsForward DEF ToolMiss, Wanted, Calling
    <3>2. job'.step = "run" BY <2>3 DEF Go, TypeInv, JobOK, AttemptSet
    <3> QED BY <1>1, <1>10, <3>1, <3>2 DEF ToolMiss, Unasked
  <2> QED BY <1>10, <2>1, <2>2, <2>3 DEF ToolMiss
<1>11. ASSUME NEW r \in Results, Execute(r)
       PROVE  /\ Forward \/ GivenUp
              /\ Grown(responses, results, responses', results')
              /\ Unasked'
  <2>1. Forward BY <1>11, WaitsForward DEF Execute
  <2>2. job'.step = "record" BY <1>11 DEF Execute, TypeInv, JobOK, AttemptSet
  <2> QED BY <1>1, <1>11, <2>1, <2>2 DEF Execute, Unasked
<1>12. CASE Record
  <2>1. job.calls # <<>> /\ results[Call.tool] = 0 /\ job.result \in Results /\ job.result # 0
    BY <1>12, NativeAssumption DEF Record, OnceInv, ToolAtHand
  <2>2. Call.tool \in Tools BY <2>1, CallsGoOn DEF Call, TypeInv, JobOK, AttemptSet
  <2>3. results'[Call.tool] = job.result BY <1>12, <2>2 DEF Record, TypeInv
  <2>4. job.tools # MaxToolCalls
    BY <1>12, NativeAssumption DEF Record, OnceInv, CapHolds, TypeInv, JobOK, AttemptSet
  <2>5. Forward \/ GivenUp BY <1>12, <2>1, <2>3, <2>4, AnswerForward DEF Record
  <2>6. Grown(responses, results, responses', results')
    BY <1>12, <2>1 DEF Record, Grown, TypeInv
  <2>7. job'.step \in {"call", "over"} BY <1>12, Leaves DEF Record
  <2> QED BY <2>5, <2>6, <2>7 DEF Unasked
<1>13. CASE ToolsDone
  <2> DEFINE c == Place(job)
  <2>1. /\ c.step = "call" /\ c.messages = job.messages /\ c.calls = <<>>
        /\ c.turn = job.turn /\ c.tools = job.tools /\ c.reason = job.reason
    BY <1>13 DEF Place, Spot, ToolsDone
  <2>2. CASE job.turn = MaxTurns
    <3>1. Follows(responses', results', c, Ended(c, "max_turns"))
      BY <2>1, <2>2 DEF Follows
    <3>2. Forward BY <1>13, <2>2, <3>1, FinishForward DEF ToolsDone, Finished
    <3>3. job'.step = "over" BY <1>13, <2>2, Leaves DEF ToolsDone
    <3> QED BY <1>1, <1>13, <3>2, <3>3 DEF ToolsDone, Unasked
  <2>3. CASE job.turn # MaxTurns
    <3>1. job' = [job EXCEPT !.step = "turn", !.turn = job.turn + 1] /\ UNCHANGED <<records, first>>
      BY <1>13, <2>3 DEF ToolsDone, TypeInv, JobOK, AttemptSet
    <3>2. /\ job'.step = "turn" /\ job'.task = job.task /\ job'.reason = job.reason
          /\ job'.turn = job.turn + 1 /\ job'.tools = job.tools /\ job'.messages = job.messages
      BY <3>1 DEF TypeInv, JobOK, AttemptSet
    <3>3. Place(job') = Spot("turn", job.turn + 1, job.tools, job.messages, <<>>, job.reason)
      BY <3>2 DEF Place
    <3> HIDE DEF c
    <3>4. Follows(responses', results', c, Place(job')) BY <2>1, <2>3, <3>3 DEF Follows
    <3>5. Forward BY <3>1, <3>2, <3>4 DEF Forward, Undecided, c
    <3> QED BY <1>1, <3>1, <3>2, <3>5 DEF Unasked
  <2> QED BY <2>2, <2>3
<1>14. CASE Dies
  <2>1. GivenUp BY <1>14, GiveUp DEF Dies, Finished
  <2> QED BY <1>1, <1>14, <2>1 DEF Dies, GivenUp, Unasked
<1>15. ~ \E t \in Tasks, replay \in BOOLEAN : Begin(t, replay) BY DEF Begin
<1> QED
  BY <1>2, <1>3, <1>4, <1>5, <1>6, <1>7, <1>8, <1>9, <1>10, <1>11, <1>12, <1>13, <1>14, <1>15
  DEF Next

-----------------------------------------------------------------------------
\* An attempt under way is where its records led it, and a task that has been
\* finished ended where they lead.
OnTheWay == ~ At("over") => Reached(responses, results, Begun(job.task), Place(job))

FirstEnd ==
  \A t \in Tasks : first[t].reason \in Finished =>
    Reached(responses, results, Begun(t), EndOf(first[t]))

ReplayInv == Unasked /\ Undecided /\ OnTheWay /\ FirstEnd /\ ReplayReproduces

\* A step keeps what the records promise about every task.
LEMMA NextReplays ==
  ASSUME TypeInv, TypeInv', OnceInv, ReplayInv, Next
  PROVE  ReplayInv'
<1>0. ASSUME NEW o \in OutcomeSet, o.reason \in Finished PROVE EndOf(o) \in Places
  BY <1>0, NoCalls DEF EndOf, Spot, OutcomeSet, Places
<1>1. CASE At("over")
  <2>1. PICK t \in Tasks, replay \in BOOLEAN : Begin(t, replay)
    <3>1. ~ CacheMiss /\ ~ CacheHit /\ ~ Turn /\ ~ ProviderRaises /\ ~ StoreResponse
      BY <1>1 DEF At, CacheMiss, CacheHit, Turn, ProviderRaises, StoreResponse
    <3>2. ~ ToolCap /\ ~ ToolHit /\ ~ ToolMiss /\ ~ Record /\ ~ ToolsDone /\ ~ Dies
      BY <1>1 DEF At, ToolCap, ToolHit, ToolMiss, Wanted, Calling, Record, ToolsDone, Dies
    <3>3. /\ ~ \E rp \in Replies : ProviderAnswers(rp)
          /\ ~ \E r \in Results : Execute(r)
      BY <1>1 DEF At, ProviderAnswers, Execute
    <3> QED BY <3>1, <3>2, <3>3 DEF Next
  <2>2. job' = Attempt(t, replay) /\ UNCHANGED <<responses, results, first>>
    BY <2>1 DEF Begin, records
  <2>3. Place(job') = Begun(t) /\ job'.task = t /\ job'.step = "turn" /\ job'.reason = "none"
    BY <2>2 DEF Attempt, Begun, Place
  <2>4. OnTheWay' BY <2>3, ReachedSelf DEF OnTheWay
  <2>5. FirstEnd' BY <2>2 DEF ReplayInv, FirstEnd
  <2> QED BY <2>3, <2>4, <2>5 DEF ReplayInv, Unasked, Undecided, ReplayReproduces, At
<1>2. CASE ~ At("over")
  <2> DEFINE t == job.task
             q == responses'
             s == results'
  <2>1. /\ Forward \/ GivenUp
        /\ Grown(responses, results, q, s) /\ Unasked'
    BY <1>2, StepMoves DEF ReplayInv
  <2>2. t \in Tasks /\ Begun(t) \in Places BY BegunIs DEF TypeInv, JobOK, AttemptSet
  <2>3. Place(job) \in Places
    BY <1>2, PlaceIs DEF ReplayInv, Undecided, TypeInv, JobOK
  <2>4. Reached(responses, results, Begun(t), Place(job)) BY <1>2 DEF ReplayInv, OnTheWay
  <2>5. Reached(q, s, Begun(t), Place(job)) BY <2>1, <2>4, ReachedStill
  <2>6. ASSUME NEW u \in Tasks, first[u].reason \in Finished
        PROVE  Reached(q, s, Begun(u), EndOf(first[u]))
    BY <2>1, <2>6, ReachedStill DEF ReplayInv, FirstEnd
  <2>7. ASSUME NEW u \in Tasks, first[u].reason \in Finished PROVE EndOf(first[u]) \in Places
    BY <1>0, <2>7 DEF TypeInv
  <2>8. \A o : EndOf(o).step = "over" BY DEF EndOf, Spot
  <2> HIDE DEF q, s
  <2>9. CASE Forward
    <3>1. job'.reason \in Finished \cup {"none"} BY <2>9 DEF Forward
    <3>2. Place(job') \in Places BY <3>1, PlaceIs DEF TypeInv, JobOK
    <3>3. Place(job') = Place(job) \/ Follows(q, s, Place(job), Place(job'))
      BY <2>9 DEF Forward, q, s
    <3>4. Reached(q, s, Begun(t), Place(job')) BY <2>3, <2>5, <3>2, <3>3, ReachedNext
    <3>5. job'.task = t BY <2>9 DEF Forward
    <3>6. OnTheWay' BY <3>4, <3>5 DEF OnTheWay, q, s
    <3>7. CASE job'.step # "over"
      <4>1. UNCHANGED first /\ job'.reason = "none" BY <2>9, <3>7 DEF Forward
      <4>2. FirstEnd' BY <2>6, <4>1 DEF FirstEnd, q, s
      <4> QED BY <2>1, <3>6, <3>7, <4>1, <4>2
          DEF ReplayInv, Undecided, ReplayReproduces, At
    <3>8. CASE job'.step = "over"
      <4>1. /\ job'.reason \in Finished
            /\ first' = IF first[t].reason = "none"
                        THEN [first EXCEPT ![t] = Outcome(job')] ELSE first
        BY <2>9, <3>8 DEF Forward
      <4>2. Place(job') = EndOf(Outcome(job')) /\ Place(job').step = "over"
        BY <3>8 DEF Place, Spot, EndOf, Outcome
      <4>3. Outcome(job') = first'[t] /\ FirstEnd'
        <5>1. CASE first[t].reason = "none"
          <6>1. first' = [first EXCEPT ![t] = Outcome(job')] BY <4>1, <5>1
          <6>2. first'[t] = Outcome(job') BY <2>2, <6>1 DEF TypeInv
          <6>3. ASSUME NEW u \in Tasks, first'[u].reason \in Finished
                PROVE  Reached(q, s, Begun(u), EndOf(first'[u]))
            <7>1. CASE u = t BY <3>4, <4>2, <6>2, <7>1
            <7>2. CASE u # t
              <8>1. first'[u] = first[u] BY <6>1, <7>2 DEF TypeInv
              <8> QED BY <2>6, <6>3, <8>1
            <7> QED BY <7>1, <7>2
          <6> QED BY <6>2, <6>3 DEF FirstEnd, q, s
        <5>2. CASE first[t].reason # "none"
          <6>1. first' = first BY <4>1, <5>2
          <6>2. first[t].reason \in Finished /\ first[t] \in OutcomeSet
            BY <2>2, <5>2 DEF TypeInv, OutcomeSet
          <6>3. Place(job') = EndOf(first[t])
            <7>1. Stuck(q, s, Place(job')) /\ Stuck(q, s, EndOf(first[t]))
              BY <2>8, <4>2, EndsStick
            <7> QED BY <2>2, <2>6, <2>7, <3>4, <6>2, <7>1, OneEnd
          <6>4. Outcome(job') = first[t]
            <7>1. EndOf(Outcome(job')) = EndOf(first[t]) BY <4>2, <6>3
            <7>2. /\ Outcome(job').turn = first[t].turn /\ Outcome(job').tools = first[t].tools
                  /\ Outcome(job').messages = first[t].messages
                  /\ Outcome(job').reason = first[t].reason
              BY <7>1 DEF EndOf, Spot
            <7> QED BY <6>2, <7>2 DEF Outcome, OutcomeSet
          <6>5. FirstEnd' BY <2>6, <6>1 DEF FirstEnd, q, s
          <6> QED BY <6>1, <6>4, <6>5
        <5> QED BY <5>1, <5>2
      <4>4. job'.reason # "missed" BY <4>1 DEF Finished
      <4>5. ReplayReproduces' BY <3>5, <4>3, <4>4 DEF ReplayReproduces
      <4> QED BY <2>1, <3>6, <3>8, <4>3, <4>5 DEF ReplayInv, Undecided, At
    <3> QED BY <3>7, <3>8
  <2>10. CASE GivenUp
    <3>1. /\ job'.step = "over" /\ job'.task = t /\ job'.reason \notin Finished
          /\ UNCHANGED first
      BY <2>10 DEF GivenUp
    <3>2. FirstEnd' BY <2>6, <3>1 DEF FirstEnd, q, s
    <3>3. ASSUME job'.reason = "missed" PROVE first[t].reason = "none"
      <4> SUFFICES ASSUME first[t].reason # "none" PROVE FALSE OBVIOUS
      <4>1. first[t].reason \in Finished BY <2>2 DEF TypeInv, OutcomeSet
      <4>2. Stuck(q, s, Place(job)) BY <2>10, <3>3 DEF GivenUp, records, q, s
      <4>3. Stuck(q, s, EndOf(first[t])) BY <2>8, EndsStick
      <4>4. Place(job) = EndOf(first[t])
        BY <2>2, <2>5, <2>6, <2>7, <4>1, <4>2, <4>3, OneEnd
      <4>5. Place(job).step # "over" BY <1>2 DEF Place, Spot, At
      <4> QED BY <2>8, <4>4, <4>5
    <3>4. ReplayReproduces' BY <3>1, <3>3 DEF ReplayReproduces
    <3> QED BY <2>1, <3>1, <3>2, <3>4 DEF ReplayInv, Undecided, OnTheWay, At
  <2> QED BY <2>1, <2>9, <2>10
<1> QED BY <1>1, <1>2

\* So the records keep their promise.
LEMMA Replays == Spec => []ReplayInv
<1>1. Init => ReplayInv
  <2> SUFFICES ASSUME Init PROVE ReplayInv OBVIOUS
  <2>1. job.step = "over" /\ job.reason = "none" BY DEF Init, Attempt
  <2>2. \A t \in Tasks : first[t].reason = "none" BY DEF Init, NoOutcome, Outcome, Attempt
  <2> QED BY <2>1, <2>2
      DEF ReplayInv, Unasked, Undecided, OnTheWay, FirstEnd, ReplayReproduces, At, Finished
<1>2. TypeInv /\ TypeInv' /\ OnceInv /\ ReplayInv /\ [Next]_vars => ReplayInv'
  <2>1. ASSUME UNCHANGED vars, ReplayInv PROVE ReplayInv'
    BY <2>1 DEF vars, records, ReplayInv, Unasked, Undecided, OnTheWay, FirstEnd,
                ReplayReproduces, At
  <2> QED BY <2>1, NextReplays
<1> QED BY <1>1, <1>2, Inductive, PTL DEF Spec

\* A task that has finished once finishes the same way ever after, live or
\* replayed, and no replay of it misses, whatever other tasks record and however
\* attempts raise or die in between.
THEOREM RecordsReplay == Spec => []ReplayReproduces
<1>1. ReplayInv => ReplayReproduces BY DEF ReplayInv
<1> QED BY <1>1, Replays, PTL
-----------------------------------------------------------------------------
(* Conversations: whole exchanges, and what is awaited of the last one.    *)

\* The calls of the last response that have no answer yet.
Rest == IF job.step \in {"call", "run", "record"} THEN job.calls ELSE <<>>

\* The transcript with the answers it awaits.
Full(ms, rest) == ms \o Answers(rest)

WholeIn(q, ms) ==
  \A i \in DOMAIN ms : Exchanged(ms[i]) => \E t \in DOMAIN q : StandsIn(ms, i, Exchange(q[t]))

Conversation(q, ms, rest) == ms[1].role = "user" /\ WholeIn(q, Full(ms, rest))

ConversationInv ==
  /\ \A t \in DOMAIN responses : Covered(responses[t])
  /\ At("store") => Covered(job.reply)
  /\ ~ At("over") => Conversation(responses, job.messages, Rest)

-----------------------------------------------------------------------------
\* Where the messages of two transcripts are in the one that joins them.
LEMMA Joined ==
  ASSUME NEW s \in Seq(Messages), NEW t \in Seq(Messages)
  PROVE  /\ s \o t \in Seq(Messages) /\ Len(s) \in Nat /\ Len(t) \in Nat
         /\ Len(s \o t) = Len(s) + Len(t) /\ DOMAIN (s \o t) = 1..Len(s) + Len(t)
         /\ DOMAIN s = 1..Len(s) /\ DOMAIN t = 1..Len(t)
         /\ \A i \in 1..Len(s) : (s \o t)[i] = s[i]
         /\ \A i \in 1..Len(t) : (s \o t)[Len(s) + i] = t[i]
OBVIOUS

\* The answers that are awaited are messages.
LEMMA AnswersAre ==
  ASSUME NEW cs \in CallLists
  PROVE  /\ Answers(cs) \in Seq(Messages) /\ Len(Answers(cs)) = Len(cs) /\ Len(cs) \in Nat
         /\ DOMAIN cs = 1..Len(cs)
         /\ \A k \in 1..Len(cs) : Answers(cs)[k] = Answer(cs[k], 0) /\ cs[k] \in Calls
<1>1. cs \in Seq(Calls) BY CallListsAre
<1>2. DOMAIN cs = 1..Len(cs) /\ Len(cs) \in Nat /\ \A k \in 1..Len(cs) : cs[k] \in Calls BY <1>1
<1>3. Answers(cs) = [k \in 1..Len(cs) |-> Answer(cs[k], 0)] BY <1>2 DEF Answers
<1>4. Answers(cs) \in [1..Len(cs) -> Messages] BY <1>2, <1>3, MessagesAre
<1>5. Answers(cs) \in Seq(Messages) /\ Len(Answers(cs)) = Len(cs) BY <1>2, <1>4, Numbered
<1> QED BY <1>2, <1>3, <1>5

\* An exchange: what was said, then an answer to each call.
LEMMA ExchangeIs ==
  ASSUME NEW rp \in Responses
  PROVE  /\ Exchange(rp) \in Seq(Messages) /\ Len(rp.shown) \in Nat /\ Len(rp.calls) \in Nat
         /\ DOMAIN rp.shown = 1..Len(rp.shown) /\ DOMAIN rp.calls = 1..Len(rp.calls)
         /\ Len(Exchange(rp)) = Len(rp.shown) + Len(rp.calls)
         /\ DOMAIN Exchange(rp) = 1..Len(rp.shown) + Len(rp.calls)
         /\ \A k \in 1..Len(rp.shown) : Exchange(rp)[k].role = "assistant"
         /\ \A k \in 1..Len(rp.shown) : Exchange(rp)[k].calls = rp.shown[k]
         /\ \A k \in 1..Len(rp.calls) : Exchange(rp)[Len(rp.shown) + k].role = "tool"
         /\ \A k \in 1..Len(rp.calls) : Exchange(rp)[Len(rp.shown) + k].calls[1] = rp.calls[k]
<1>1. rp.shown \in Seq(Seq(Calls)) /\ rp.calls \in CallLists BY DEF Responses
<1>2. Says(rp.shown) \in Seq(Messages) /\ Answers(rp.calls) \in Seq(Messages)
  BY <1>1, SaysIs, AnswersAre
<1>3. /\ Len(Says(rp.shown)) = Len(rp.shown) /\ Len(Answers(rp.calls)) = Len(rp.calls)
      /\ DOMAIN rp.shown = 1..Len(rp.shown) /\ DOMAIN rp.calls = 1..Len(rp.calls)
  BY <1>1, SaysIs, AnswersAre
<1>4. /\ \A k \in 1..Len(rp.shown) : Says(rp.shown)[k] = Assistant(rp.shown[k])
      /\ \A k \in 1..Len(rp.calls) : Answers(rp.calls)[k] = Answer(rp.calls[k], 0)
  BY <1>1, SaysIs, AnswersAre
<1>5. /\ \A cs : Assistant(cs).role = "assistant" /\ Assistant(cs).calls = cs
      /\ \A c : Answer(c, 0).role = "tool" /\ Answer(c, 0).calls[1] = c
  BY DEF Assistant, Answer, Message
<1> DEFINE a == Says(rp.shown)
           b == Answers(rp.calls)
<1>6. Exchange(rp) = a \o b /\ a \in Seq(Messages) /\ b \in Seq(Messages) BY <1>2 DEF Exchange
<1>7. /\ Len(a) = Len(rp.shown) /\ Len(b) = Len(rp.calls)
      /\ \A k \in 1..Len(rp.shown) : a[k] = Assistant(rp.shown[k])
      /\ \A k \in 1..Len(rp.calls) : b[k] = Answer(rp.calls[k], 0)
  BY <1>3, <1>4
<1> HIDE DEF a, b
<1>8. /\ a \o b \in Seq(Messages) /\ Len(a) \in Nat /\ Len(b) \in Nat
      /\ Len(a \o b) = Len(a) + Len(b) /\ DOMAIN (a \o b) = 1..Len(a) + Len(b)
      /\ \A k \in 1..Len(a) : (a \o b)[k] = a[k]
      /\ \A k \in 1..Len(b) : (a \o b)[Len(a) + k] = b[k]
  BY <1>6, Joined
<1> HIDE DEF Exchange
<1>9. \A k \in 1..Len(rp.shown) :
        Exchange(rp)[k].role = "assistant" /\ Exchange(rp)[k].calls = rp.shown[k]
  BY <1>5, <1>6, <1>7, <1>8
<1>10. \A k \in 1..Len(rp.calls) :
         /\ Exchange(rp)[Len(rp.shown) + k].role = "tool"
         /\ Exchange(rp)[Len(rp.shown) + k].calls[1] = rp.calls[k]
  BY <1>5, <1>6, <1>7, <1>8
<1> QED BY <1>3, <1>6, <1>7, <1>8, <1>9, <1>10

\* Every message of an exchange is the provider's or an answer.
LEMMA ExchangeTurns ==
  ASSUME NEW rp \in Responses, NEW d \in DOMAIN Exchange(rp)
  PROVE  Exchanged(Exchange(rp)[d])
<1> DEFINE n == Len(rp.shown)
           x == Exchange(rp)
<1>0. /\ n \in Nat /\ Len(rp.calls) \in Nat /\ DOMAIN Exchange(rp) = 1..n + Len(rp.calls)
      /\ \A k \in 1..n : x[k].role = "assistant"
      /\ \A k \in 1..Len(rp.calls) : x[n + k].role = "tool"
  <2> HIDE DEF Exchange
  <2>1. n \in Nat /\ Len(rp.calls) \in Nat /\ DOMAIN Exchange(rp) = 1..n + Len(rp.calls)
    BY ExchangeIs
  <2>2. \A k \in 1..Len(rp.shown) : Exchange(rp)[k].role = "assistant"
    BY ExchangeIs
  <2>3. \A k \in 1..Len(rp.calls) : Exchange(rp)[Len(rp.shown) + k].role = "tool"
    BY ExchangeIs
  <2> QED BY <2>1, <2>2, <2>3
<1>1. d \in 1..n + Len(rp.calls) BY <1>0
<1> HIDE DEF n, x
<1>2. CASE d <= n BY <1>0, <1>1, <1>2 DEF Exchanged, x
<1>3. CASE ~ (d <= n)
  <2>1. d - n \in 1..Len(rp.calls) /\ n + (d - n) = d BY <1>0, <1>1, <1>3
  <2>2. x[d].role = "tool" BY <1>0, <2>1
  <2> QED BY <2>2 DEF Exchanged, x
<1> QED BY <1>2, <1>3

\* What stands in a transcript stands in every one that goes on from it with messages of
\* the same kinds.
LEMMA StandsStill ==
  ASSUME NEW ms \in Seq(Messages), NEW ns \in Seq(Messages), Len(ms) <= Len(ns),
         \A i \in 1..Len(ms) : Kind(ns[i]) = Kind(ms[i]),
         NEW i \in DOMAIN ms, NEW x \in Seq(Messages), StandsIn(ms, i, x)
  PROVE  StandsIn(ns, i, x)
<1>1. PICK p \in 1..i, o \in DOMAIN x :
        /\ i - p <= Len(x) - o /\ p + (Len(x) - o) <= Len(ms)
        /\ \A e \in 0..Len(x) - o : Kind(ms[p + e]) = Kind(x[o + e])
        /\ o = 1 \/ (p > 1 /\ ms[p - 1].role = "system")
  BY DEF StandsIn
<1>2. Len(ms) \in Nat /\ Len(ns) \in Nat /\ Len(x) \in Nat /\ i \in 1..Len(ms) /\ o \in 1..Len(x)
  OBVIOUS
<1>0. /\ p \in Int /\ p > 0 /\ p <= i /\ i <= Len(ms) /\ o \in Int /\ Len(x) \in Int
      /\ p + (Len(x) - o) <= Len(ms)
  BY <1>1, <1>2
<1>3. p + (Len(x) - o) <= Len(ns) BY <1>0, <1>2
<1>4. ASSUME NEW e \in 0..Len(x) - o PROVE Kind(ns[p + e]) = Kind(x[o + e])
  <2>1. p + e \in 1..Len(ms) BY <1>0, <1>2
  <2> QED BY <1>1, <2>1
<1>5. p > 1 /\ ms[p - 1].role = "system" => ns[p - 1].role = "system"
  <2> SUFFICES ASSUME p > 1, ms[p - 1].role = "system" PROVE ns[p - 1].role = "system" OBVIOUS
  <2>1. p - 1 \in 1..Len(ms) BY <1>2
  <2>2. Kind(ns[p - 1]) = Kind(ms[p - 1]) BY <2>1
  <2> QED BY <2>2 DEF Kind
<1> QED BY <1>1, <1>3, <1>4, <1>5 DEF StandsIn

\* Records that grow keep every exchange.
LEMMA WholeStill ==
  ASSUME NEW q, NEW q2, NEW ms, WholeIn(q, ms),
         \A t \in DOMAIN q : t \in DOMAIN q2 /\ q2[t] = q[t]
  PROVE  WholeIn(q2, ms)
<1> SUFFICES ASSUME NEW i \in DOMAIN ms, Exchanged(ms[i])
             PROVE  \E t \in DOMAIN q2 : StandsIn(ms, i, Exchange(q2[t]))
  BY DEF WholeIn
<1>1. PICK t \in DOMAIN q : StandsIn(ms, i, Exchange(q[t])) BY DEF WholeIn
<1>2. t \in DOMAIN q2 /\ q2[t] = q[t] OBVIOUS
<1> QED BY <1>1, <1>2

Recorded(q) == \A t \in DOMAIN q : q[t] \in Responses

\* An attempt begins with one message, which is neither.
LEMMA PromptConverses ==
  ASSUME NEW q, NEW t \in Tasks
  PROVE  Conversation(q, Prompt(t), <<>>)
<1>1. Answers(<<>>) = <<>> BY DEF Answers
<1>2. Full(Prompt(t), <<>>) = Prompt(t) BY <1>1, MessagesAre DEF Full
<1>3. Len(Prompt(t)) = 1 /\ DOMAIN Prompt(t) = {1} /\ Prompt(t)[1].role = "user"
  BY DEF Prompt, Message
<1> QED BY <1>2, <1>3 DEF Conversation, WholeIn, Exchanged

\* A transcript that awaits nothing is full.
LEMMA FullAlready ==
  ASSUME NEW ms \in Seq(Messages)
  PROVE  Full(ms, <<>>) = ms
<1>1. Answers(<<>>) = <<>> BY DEF Answers
<1> QED BY <1>1 DEF Full

\* A response on record adds its exchange.
LEMMA ResponseConverses ==
  ASSUME NEW q, Recorded(q), NEW t \in DOMAIN q, NEW ms \in Seq(Messages), ms # <<>>,
         Conversation(q, ms, <<>>)
  PROVE  Conversation(q, ms \o Says(q[t].shown), q[t].calls)
<1> DEFINE rp == q[t]
           x == Exchange(rp)
           new == ms \o x
<1>1. rp \in Responses BY DEF Recorded
<1>2. /\ x \in Seq(Messages) /\ Says(rp.shown) \in Seq(Messages)
      /\ Answers(rp.calls) \in Seq(Messages)
  BY <1>1, ExchangeIs, SaysIs, AnswersAre DEF Responses
<1>3. Full(ms \o Says(rp.shown), rp.calls) = new
  BY <1>2 DEF Full, Exchange
<1>4. /\ new \in Seq(Messages) /\ Len(ms) \in Nat /\ Len(x) \in Nat
      /\ Len(new) = Len(ms) + Len(x) /\ DOMAIN new = 1..Len(ms) + Len(x)
      /\ DOMAIN ms = 1..Len(ms) /\ DOMAIN x = 1..Len(x)
      /\ \A i \in 1..Len(ms) : new[i] = ms[i]
      /\ \A i \in 1..Len(x) : new[Len(ms) + i] = x[i]
  BY <1>2, Joined
<1>5. WholeIn(q, ms) /\ ms[1].role = "user" BY FullAlready DEF Conversation
<1>6. Len(ms) > 0 BY <1>4
<1> HIDE DEF new, x, rp
<1>7. ASSUME NEW i \in DOMAIN new, Exchanged(new[i])
      PROVE  \E u \in DOMAIN q : StandsIn(new, i, Exchange(q[u]))
  <2>1. CASE i <= Len(ms)
    <3>1. i \in DOMAIN ms /\ new[i] = ms[i] BY <1>4, <2>1
    <3>2. PICK u \in DOMAIN q : StandsIn(ms, i, Exchange(q[u])) BY <1>5, <1>7, <3>1 DEF WholeIn
    <3>3. Exchange(q[u]) \in Seq(Messages) BY ExchangeIs DEF Recorded
    <3>4. Len(ms) <= Len(new) BY <1>4
    <3>5. StandsIn(new, i, Exchange(q[u])) BY <1>4, <3>1, <3>2, <3>3, <3>4, StandsStill
    <3> QED BY <3>5
  <2>2. CASE ~ (i <= Len(ms))
    <3> DEFINE b == Len(ms) + 1
    <3>1. b \in 1..i /\ 1 \in DOMAIN x BY <1>4, <2>2
    <3>2. i - b <= Len(x) - 1 /\ b + (Len(x) - 1) <= Len(new) BY <1>4, <2>2
    <3>3. ASSUME NEW e \in 0..Len(x) - 1 PROVE Kind(new[b + e]) = Kind(x[1 + e])
      <4>1. 1 + e \in 1..Len(x) /\ b + e = Len(ms) + (1 + e) BY <1>4
      <4> QED BY <1>4, <4>1
    <3> HIDE DEF b
    <3>4. StandsIn(new, i, x) BY <3>1, <3>2, <3>3 DEF StandsIn
    <3> QED BY <3>4 DEF x, rp
  <2> QED BY <2>1, <2>2
<1>8. (ms \o Says(rp.shown))[1].role = "user"
  BY <1>2, <1>4, <1>5, <1>6, Joined
<1> QED BY <1>3, <1>7, <1>8 DEF Conversation, WholeIn, rp

\* An answer takes the place of the first one awaited.
LEMMA AnswerConverses ==
  ASSUME NEW q, Recorded(q), NEW ms \in Seq(Messages), ms # <<>>,
         NEW rest \in CallLists, rest # <<>>, Conversation(q, ms, rest), NEW r \in Results \cup {0}
  PROVE  Conversation(q, Append(ms, Answer(Head(rest), r)), Tail(rest))
<1> DEFINE m == Answer(Head(rest), r)
           more == Append(ms, m)
           old == Full(ms, rest)
           new == Full(more, Tail(rest))
<1>1. rest \in Seq(Calls) BY CallListsAre
<1>2. /\ Len(rest) \in Nat /\ Len(rest) > 0 /\ Len(Tail(rest)) = Len(rest) - 1
      /\ Head(rest) = rest[1] /\ \A j \in 1..Len(rest) - 1 : Tail(rest)[j] = rest[j + 1]
  BY <1>1
<1>3. Head(rest) \in Calls /\ Tail(rest) \in CallLists BY CallsGoOn
<1>4. m \in Messages BY <1>3, MessagesAre
<1>5. Kind(m) = Kind(Answer(rest[1], 0)) BY <1>2 DEF Kind, Answer, Message
<1>6. \A c : Kind(Answer(c, 0)) = Kind(Answer(c, 0)) OBVIOUS
<1> HIDE DEF m
<1>7. /\ Len(ms) \in Nat /\ more \in Seq(Messages) /\ Len(more) = Len(ms) + 1
      /\ more[Len(ms) + 1] = m /\ \A i \in 1..Len(ms) : more[i] = ms[i]
  BY <1>4
<1> HIDE DEF more
<1>8. /\ Answers(rest) \in Seq(Messages) /\ Len(Answers(rest)) = Len(rest)
      /\ \A k \in 1..Len(rest) : Answers(rest)[k] = Answer(rest[k], 0)
  BY AnswersAre
<1>9. /\ Answers(Tail(rest)) \in Seq(Messages) /\ Len(Answers(Tail(rest))) = Len(rest) - 1
      /\ \A k \in 1..Len(rest) - 1 : Answers(Tail(rest))[k] = Answer(rest[k + 1], 0)
  <2> DEFINE tail == Tail(rest)
  <2>1. /\ tail \in CallLists /\ Len(tail) = Len(rest) - 1
        /\ \A j \in 1..Len(rest) - 1 : tail[j] = rest[j + 1]
    BY <1>2, <1>3
  <2> HIDE DEF tail
  <2>2. /\ Answers(tail) \in Seq(Messages) /\ Len(Answers(tail)) = Len(tail)
        /\ \A k \in 1..Len(tail) : Answers(tail)[k] = Answer(tail[k], 0)
    BY <2>1, AnswersAre
  <2>3. \A k \in 1..Len(rest) - 1 : Answers(tail)[k] = Answer(rest[k + 1], 0) BY <2>1, <2>2
  <2> QED BY <2>1, <2>2, <2>3 DEF tail
<1>10. /\ old \in Seq(Messages) /\ Len(old) = Len(ms) + Len(rest)
       /\ DOMAIN old = 1..Len(ms) + Len(rest)
       /\ \A i \in 1..Len(ms) : old[i] = ms[i]
       /\ \A k \in 1..Len(rest) : old[Len(ms) + k] = Answer(rest[k], 0)
  <2> DEFINE a == Answers(rest)
  <2>1. /\ a \in Seq(Messages) /\ Len(a) = Len(rest) /\ old = ms \o a
        /\ \A k \in 1..Len(rest) : a[k] = Answer(rest[k], 0)
    BY <1>8 DEF Full
  <2> HIDE DEF a, old
  <2>2. /\ ms \o a \in Seq(Messages) /\ Len(ms \o a) = Len(ms) + Len(a)
        /\ DOMAIN (ms \o a) = 1..Len(ms) + Len(a)
        /\ \A i \in 1..Len(ms) : (ms \o a)[i] = ms[i]
        /\ \A i \in 1..Len(a) : (ms \o a)[Len(ms) + i] = a[i]
    BY <2>1, Joined
  <2> QED BY <2>1, <2>2
<1>11. /\ new \in Seq(Messages) /\ Len(new) = (Len(ms) + 1) + (Len(rest) - 1)
       /\ DOMAIN new = 1..(Len(ms) + 1) + (Len(rest) - 1)
       /\ \A i \in 1..Len(ms) + 1 : new[i] = more[i]
       /\ \A k \in 1..Len(rest) - 1 : new[(Len(ms) + 1) + k] = Answer(rest[k + 1], 0)
  <2> DEFINE a == Answers(Tail(rest))
  <2>1. /\ a \in Seq(Messages) /\ Len(a) = Len(rest) - 1 /\ new = more \o a
        /\ \A k \in 1..Len(rest) - 1 : a[k] = Answer(rest[k + 1], 0)
    BY <1>9 DEF Full
  <2> HIDE DEF a, new
  <2>2. /\ more \o a \in Seq(Messages) /\ Len(more \o a) = Len(more) + Len(a)
        /\ DOMAIN (more \o a) = 1..Len(more) + Len(a)
        /\ \A i \in 1..Len(more) : (more \o a)[i] = more[i]
        /\ \A i \in 1..Len(a) : (more \o a)[Len(more) + i] = a[i]
    BY <1>7, <2>1, Joined
  <2> QED BY <1>7, <2>1, <2>2
<1> HIDE DEF old, new
<1>12. Len(new) = Len(old) /\ DOMAIN new = DOMAIN old BY <1>2, <1>7, <1>10, <1>11
<1>13. ASSUME NEW i \in DOMAIN old PROVE Kind(new[i]) = Kind(old[i])
  <2>1. i \in 1..Len(ms) + Len(rest) BY <1>10
  <2>2. CASE i <= Len(ms)
    <3>1. i \in 1..Len(ms) /\ i \in 1..Len(ms) + 1 BY <1>7, <2>1, <2>2
    <3> QED BY <1>7, <1>10, <1>11, <3>1
  <2>3. CASE i = Len(ms) + 1
    <3>1. new[i] = m BY <1>7, <1>11, <2>3
    <3>2. old[i] = Answer(rest[1], 0) BY <1>2, <1>10, <2>3
    <3> QED BY <1>5, <3>1, <3>2
  <2>4. CASE i > Len(ms) + 1
    <3> DEFINE k == i - (Len(ms) + 1)
    <3>1. /\ k \in 1..Len(rest) - 1 /\ (Len(ms) + 1) + k = i
          /\ k + 1 \in 1..Len(rest) /\ Len(ms) + (k + 1) = i
      <4>1. Len(ms) \in Int /\ Len(rest) \in Int /\ i \in Int /\ i <= Len(ms) + Len(rest)
        BY <1>2, <1>7, <2>1
      <4> QED BY <2>4, <4>1
    <3> HIDE DEF k
    <3>2. new[i] = Answer(rest[k + 1], 0) BY <1>11, <3>1
    <3>3. old[i] = Answer(rest[k + 1], 0) BY <1>10, <3>1
    <3> QED BY <3>2, <3>3
  <2> QED BY <1>7, <2>1, <2>2, <2>3, <2>4
<1>14. WholeIn(q, old) /\ ms[1].role = "user" BY DEF Conversation, old
<1>15. ASSUME NEW i \in DOMAIN new, Exchanged(new[i])
       PROVE  \E t \in DOMAIN q : StandsIn(new, i, Exchange(q[t]))
  <2>1. i \in DOMAIN old /\ Kind(new[i]) = Kind(old[i]) BY <1>12, <1>13
  <2>2. Exchanged(old[i]) BY <1>15, <2>1 DEF Kind, Exchanged
  <2>3. PICK t \in DOMAIN q : StandsIn(old, i, Exchange(q[t])) BY <1>14, <2>1, <2>2 DEF WholeIn
  <2>4. Exchange(q[t]) \in Seq(Messages) BY ExchangeIs DEF Recorded
  <2>5. Len(old) <= Len(new) BY <1>2, <1>7, <1>10, <1>12
  <2>6. \A j \in 1..Len(old) : Kind(new[j]) = Kind(old[j]) BY <1>10, <1>13
  <2>7. StandsIn(new, i, Exchange(q[t])) BY <1>10, <1>11, <2>1, <2>3, <2>4, <2>5, <2>6, StandsStill
  <2> QED BY <2>7
<1>16. more[1].role = "user"
  <2>1. Len(ms) > 0 OBVIOUS
  <2> QED BY <1>7, <1>14, <2>1
<1> QED BY <1>15, <1>16 DEF Conversation, WholeIn, new, more, m

\* Compaction: what it keeps moves by `off`, and what of an exchange it keeps stands behind
\* the mark or moves whole.
LEMMA CompactConverses ==
  ASSUME NEW q, Recorded(q), NEW ms \in Seq(Messages), ms # <<>>, Conversation(q, ms, <<>>)
  PROVE  Conversation(q, Compact(ms), <<>>)
<1> DEFINE N == Len(ms)
           cut == IF N > Window THEN N - Window ELSE 0
           off == cut - 2
           new == Compact(ms)
<1>1. N \in Nat /\ N > 0 /\ DOMAIN ms = 1..N BY DEF N
<1>2. cut \in 0..N - 1 BY <1>1, NativeAssumption
<1>3. Latest(ms) = SubSeq(ms, cut + 1, N)
  <2>1. CASE N > Window
    <3>1. N - Window + 1 = cut + 1 BY <1>1, <2>1, NativeAssumption
    <3> QED BY <2>1, <3>1 DEF Latest
  <2>2. CASE ~ (N > Window) BY <2>2 DEF Latest
  <2> QED BY <2>1, <2>2
<1> HIDE DEF cut
<1>4. /\ SubSeq(ms, cut + 1, N) \in Seq(Messages)
      /\ Len(SubSeq(ms, cut + 1, N)) = N - cut
      /\ \A i \in 1..N - cut : SubSeq(ms, cut + 1, N)[i] = ms[cut + i]
  <2>1. cut + 1 \in Nat /\ cut + 1 > 0 /\ cut + 1 <= N /\ N <= Len(ms) BY <1>1, <1>2
  <2>2. \A i \in cut + 1 .. N : ms[i] \in Messages BY <1>1, <1>2
  <2> QED BY <1>1, <1>2, <2>1, <2>2
<1>5. /\ new \in Seq(Messages) /\ Len(new) = N - off /\ DOMAIN new = 1..N - off
      /\ new[1] = ms[1] /\ new[2] = Summary
      /\ \A i \in 3..N - off : new[i] = ms[off + i]
  <2> DEFINE two == <<Head(ms), Summary>>
             tail == SubSeq(ms, cut + 1, N)
  <2>1. two \in Seq(Messages) /\ Len(two) = 2 /\ two[1] = ms[1] /\ two[2] = Summary
    BY MessagesAre
  <2>2. new = two \o tail BY <1>3 DEF Compact
  <2>3. tail \in Seq(Messages) /\ Len(tail) = N - cut BY <1>4
  <2> HIDE DEF two, tail, new
  <2>4. /\ new \in Seq(Messages) /\ Len(new) = 2 + (N - cut) /\ DOMAIN new = 1..2 + (N - cut)
        /\ new[1] = ms[1] /\ new[2] = Summary
        /\ \A i \in 1..N - cut : new[2 + i] = tail[i]
    <3>1. /\ two \o tail \in Seq(Messages) /\ Len(two \o tail) = 2 + (N - cut)
          /\ DOMAIN (two \o tail) = 1..2 + (N - cut)
          /\ \A i \in 1..2 : (two \o tail)[i] = two[i]
          /\ \A i \in 1..N - cut : (two \o tail)[2 + i] = tail[i]
      <4>1. /\ two \o tail \in Seq(Messages) /\ Len(two \o tail) = Len(two) + Len(tail)
            /\ DOMAIN (two \o tail) = 1..Len(two) + Len(tail)
            /\ \A i \in 1..Len(two) : (two \o tail)[i] = two[i]
            /\ \A i \in 1..Len(tail) : (two \o tail)[Len(two) + i] = tail[i]
        BY <2>1, <2>3, Joined
      <4> QED BY <2>1, <2>3, <4>1
    <3>2. 1 \in 1..2 /\ 2 \in 1..2 OBVIOUS
    <3> QED BY <2>1, <2>2, <3>1, <3>2
  <2>5. 2 + (N - cut) = N - off BY <1>1, <1>2
  <2>6. ASSUME NEW i \in 3..N - off PROVE new[i] = ms[off + i]
    <3>1. i - 2 \in 1..N - cut /\ cut + (i - 2) = off + i /\ 2 + (i - 2) = i BY <1>1, <1>2
    <3>2. new[i] = tail[i - 2] BY <2>4, <3>1
    <3> QED BY <1>4, <3>1, <3>2 DEF tail
  <2> QED BY <2>4, <2>5, <2>6
<1>6. off \in Int /\ off >= -2 /\ off + 2 < N BY <1>1, <1>2
<1>7. WholeIn(q, ms) /\ ms[1].role = "user" BY FullAlready DEF Conversation
<1>8. new[1].role = "user" /\ new[2].role = "system" BY <1>5, <1>7 DEF Summary, Message
<1> HIDE DEF N, off, new
<1>9. ASSUME NEW i \in DOMAIN new, Exchanged(new[i])
      PROVE  \E t \in DOMAIN q : StandsIn(new, i, Exchange(q[t]))
  <2>1. i # 1 /\ i # 2 BY <1>8, <1>9 DEF Exchanged
  <2>2. i \in 3..N - off BY <1>1, <1>5, <1>6, <2>1
  <2> DEFINE I == off + i
  <2>3. I \in off + 3..N /\ I \in 1..N /\ new[i] = ms[I] BY <1>1, <1>5, <1>6, <2>2
  <2>4. PICK t \in DOMAIN q : StandsIn(ms, I, Exchange(q[t])) BY <1>1, <1>7, <1>9, <2>3 DEF WholeIn
  <2> DEFINE x == Exchange(q[t])
  <2>5. x \in Seq(Messages) BY ExchangeIs DEF Recorded
  <2>6. Len(x) \in Nat /\ DOMAIN x = 1..Len(x) BY <2>5
  <2>7. PICK p \in 1..I, o \in DOMAIN x :
          /\ I - p <= Len(x) - o /\ p + (Len(x) - o) <= N
          /\ \A e \in 0..Len(x) - o : Kind(ms[p + e]) = Kind(x[o + e])
          /\ o = 1 \/ (p > 1 /\ ms[p - 1].role = "system")
    BY <2>4 DEF StandsIn, N
  <2> HIDE DEF x
  <2> DEFINE L == Len(x) - o
  <2>0. /\ p \in Int /\ p > 0 /\ p <= off + i /\ o \in Int /\ o > 0 /\ L \in Nat /\ L + o = Len(x)
        /\ off \in Int /\ i \in Int /\ i >= 3 /\ N \in Int /\ off + i <= N
        /\ (off + i) - p <= L /\ p + L <= N /\ Len(new) = N - off /\ Len(x) \in Int
    <3>1. /\ p \in 1..I /\ o \in 1..Len(x) /\ I - p <= Len(x) - o /\ p + (Len(x) - o) <= N
      BY <2>6, <2>7
    <3>2. Len(new) = N - off BY <1>5
    <3>3. off \in Int /\ N \in Int /\ i \in Int /\ i >= 3 /\ i <= N - off BY <1>1, <1>6, <2>2
    <3>4. Len(x) \in Int BY <2>6
    <3>5. p \in Int /\ p > 0 /\ p <= off + i /\ o \in Int /\ o > 0 /\ o <= Len(x) BY <3>1, <3>3, <3>4
    <3>6. L \in Nat /\ L + o = Len(x) BY <3>4, <3>5
    <3>7. off + i <= N /\ (off + i) - p <= L /\ p + L <= N BY <3>1, <3>3
    <3> QED BY <3>2, <3>3, <3>4, <3>5, <3>6, <3>7
  <2> HIDE DEF L
  <2>8. CASE p >= off + 3
    <3> DEFINE P == p - off
    <3>1. P \in 1..i /\ P >= 3 /\ off + P = p BY <2>0, <2>8
    <3>2. i - P <= L /\ P + L <= Len(new) BY <2>0
    <3>3. ASSUME NEW e \in 0..L PROVE Kind(new[P + e]) = Kind(x[o + e])
      <4>1. P + e \in 3..N - off /\ off + (P + e) = p + e BY <2>0, <3>1, <3>2
      <4>2. new[P + e] = ms[p + e] BY <1>5, <4>1
      <4> QED BY <2>7, <4>2 DEF L
    <3>4. o = 1 \/ (P > 1 /\ new[P - 1].role = "system")
      <4> SUFFICES ASSUME o # 1 PROVE P > 1 /\ new[P - 1].role = "system" OBVIOUS
      <4>0. P > 1 BY <2>0, <3>1
      <4>1. CASE P = 3
        <5>1. P - 1 = 2 BY <4>1
        <5> QED BY <1>8, <4>0, <5>1
      <4>2. CASE P # 3
        <5>1. P - 1 \in 3..N - off /\ off + (P - 1) = p - 1 BY <2>0, <3>1, <4>2
        <5>2. new[P - 1] = ms[p - 1] BY <1>5, <5>1
        <5> QED BY <2>7, <4>0, <5>2
      <4> QED BY <4>1, <4>2
    <3> HIDE DEF P
    <3>5. StandsIn(new, i, x) BY <2>7, <3>1, <3>2, <3>3, <3>4 DEF StandsIn, L
    <3> QED BY <3>5 DEF x
  <2>9. CASE ~ (p >= off + 3)
    <3> DEFINE lost == (off + 3) - p
               O == o + lost
    <3>1. lost \in Nat /\ lost > 0 /\ lost <= L /\ p + lost = off + 3 BY <2>0, <2>9
    <3> HIDE DEF lost
    <3>2. O \in 1..Len(x) /\ O > 1 /\ Len(x) - O = L - lost
      <4>1. /\ o \in Int /\ o > 0 /\ L \in Int /\ L + o = Len(x) /\ Len(x) \in Int
            /\ lost \in Int /\ lost > 0 /\ lost <= L
        BY <2>0, <3>1
      <4>2. O \in Int /\ O > 1 /\ O <= Len(x) BY <4>1
      <4>3. Len(x) - O = L - lost BY <4>1
      <4> QED BY <4>1, <4>2, <4>3
    <3>3. 3 \in 1..i /\ i - 3 <= L - lost /\ 3 + (L - lost) <= Len(new) BY <2>0, <3>1
    <3>4. ASSUME NEW e \in 0..L - lost PROVE Kind(new[3 + e]) = Kind(x[O + e])
      <4>1. /\ 3 + e \in 3..N - off /\ off + (3 + e) = p + (lost + e)
            /\ lost + e \in 0..L /\ o + (lost + e) = O + e
        BY <2>0, <3>1, <3>3
      <4>2. new[3 + e] = ms[p + (lost + e)] BY <1>5, <4>1
      <4>3. Kind(ms[p + (lost + e)]) = Kind(x[o + (lost + e)]) BY <2>7, <4>1 DEF L
      <4> QED BY <4>1, <4>2, <4>3
    <3> HIDE DEF O, lost
    <3>5. O \in DOMAIN x /\ 3 > 1 /\ new[3 - 1].role = "system" BY <1>8, <2>6, <3>2
    <3>6. StandsIn(new, i, x) BY <3>2, <3>3, <3>4, <3>5 DEF StandsIn
    <3> QED BY <3>6 DEF x
  <2> QED BY <2>8, <2>9
<1>10. Full(new, <<>>) = new BY <1>5, FullAlready
<1> QED BY <1>8, <1>9, <1>10 DEF Conversation, WholeIn, new
-----------------------------------------------------------------------------
\* The three ways a transcript goes on.
LEMMA EndConverses ==
  ASSUME TypeInv, ConversationInv, UNCHANGED responses, NEW how, End(how)
  PROVE  ConversationInv'
BY Leaves DEF ConversationInv, At

LEMMA RespondConverses ==
  ASSUME TypeInv, TypeInv', At("lookup") \/ At("store"),
         Conversation(responses', job.messages, <<>>),
         \A t \in DOMAIN responses' : Covered(responses'[t]),
         job.messages \in DOMAIN responses', Respond(responses'[job.messages])
  PROVE  ConversationInv'
<1> DEFINE rp == responses'[job.messages]
<1>0. rp \in Responses /\ Recorded(responses') BY DEF TypeInv, ResponsesOK, Recorded
<1>1. CASE rp.calls = <<>>
  <2>1. job'.step = "over" BY <1>1, Leaves DEF Respond
  <2> QED BY <2>1 DEF ConversationInv, At
<1>2. CASE rp.calls # <<>>
  <2>1. /\ job'.step = "call" /\ job'.calls = rp.calls
        /\ job'.messages = job.messages \o Says(rp.shown)
    BY <1>2 DEF Respond, TypeInv, JobOK, AttemptSet
  <2>2. job.messages \in Seq(Messages) /\ job.messages # <<>> BY DEF TypeInv, JobOK, AttemptSet
  <2>3. Conversation(responses', job.messages \o Says(rp.shown), rp.calls)
    BY <1>0, <2>2, ResponseConverses
  <2>4. Rest' = rp.calls BY <2>1 DEF Rest
  <2>5. Conversation(responses', job'.messages, Rest') BY <2>1, <2>3, <2>4
  <2> QED BY <2>1, <2>5 DEF ConversationInv, At
<1> QED BY <1>1, <1>2

LEMMA AnswerOrRaiseConverses ==
  ASSUME TypeInv, ConversationInv, UNCHANGED responses, At("call") \/ At("record"),
         job.calls # <<>>, NEW r \in Results \cup {0}, AnswerOrRaise(r)
  PROVE  ConversationInv'
<1>1. CASE End("raised") BY <1>1, EndConverses
<1>2. CASE job' = Answered(r)
  <2>1. /\ job'.step = "call" /\ job'.calls = Tail(job.calls)
        /\ job'.messages = Append(job.messages, Answer(Head(job.calls), r))
    BY <1>2 DEF Answered, Call, TypeInv, JobOK, AttemptSet
  <2>2. Conversation(responses, job.messages, job.calls) BY DEF ConversationInv, At, Rest
  <2>3. /\ job.messages \in Seq(Messages) /\ job.messages # <<>> /\ job.calls \in CallLists
        /\ Recorded(responses)
    BY DEF TypeInv, ResponsesOK, Recorded, JobOK, AttemptSet
  <2>4. Conversation(responses, Append(job.messages, Answer(Head(job.calls), r)), Tail(job.calls))
    BY <2>2, <2>3, AnswerConverses
  <2>5. Rest' = Tail(job.calls) BY <2>1 DEF Rest
  <2>6. Conversation(responses', job'.messages, Rest') BY <2>1, <2>4, <2>5
  <2> QED BY <2>1, <2>6 DEF ConversationInv, At
<1> QED BY <1>1, <1>2 DEF AnswerOrRaise

\* Every other step leaves the transcript, what it awaits, and the records.
LEMMA KeepsConversing ==
  ASSUME ConversationInv, ~ At("over"), job'.messages = job.messages, Rest' = Rest,
         UNCHANGED responses, job'.step # "store"
  PROVE  ConversationInv'
BY DEF ConversationInv, At

\* Every step of an attempt keeps its transcript a conversation.
LEMMA NextConverses ==
  ASSUME TypeInv, TypeInv', OnceInv, Unasked, ConversationInv, Next
  PROVE  ConversationInv'
<1> USE DEF At
<1>1. ASSUME NEW t \in Tasks, NEW replay \in BOOLEAN, Begin(t, replay) PROVE ConversationInv'
  <2>1. job'.messages = Prompt(t) /\ Rest' = <<>> /\ job'.step = "turn" /\ UNCHANGED responses
    BY <1>1 DEF Begin, Attempt, Rest, records
  <2> QED BY <2>1, PromptConverses DEF ConversationInv
<1>2. CASE Turn
  <2>1. job'.step = "lookup" /\ UNCHANGED responses
    BY <1>2 DEF Turn, records, TypeInv, JobOK, AttemptSet
  <2>2. job'.messages = job.messages \/ job'.messages = Compact(job.messages)
    BY <1>2 DEF Turn, TypeInv, JobOK, AttemptSet
  <2>3. Conversation(responses, job.messages, <<>>) BY <1>2 DEF Turn, ConversationInv, Rest
  <2>4. job.messages \in Seq(Messages) /\ job.messages # <<>> /\ Recorded(responses)
    BY DEF TypeInv, ResponsesOK, Recorded, JobOK, AttemptSet
  <2>5. Conversation(responses, Compact(job.messages), <<>>) BY <2>3, <2>4, CompactConverses
  <2>6. Rest' = <<>> BY <2>1 DEF Rest
  <2>7. Conversation(responses', job'.messages, Rest') BY <2>1, <2>2, <2>3, <2>5, <2>6
  <2> QED BY <2>1, <2>7 DEF ConversationInv
<1>3. CASE CacheHit
  <2>1. UNCHANGED responses /\ job.messages \in DOMAIN responses BY <1>3 DEF CacheHit, records
  <2>2. Conversation(responses, job.messages, <<>>) BY <1>3 DEF CacheHit, ConversationInv, Rest
  <2> QED BY <1>3, <2>1, <2>2, RespondConverses DEF CacheHit, ConversationInv
<1>4. CASE CacheMiss
  <2>1. CASE job.replay BY <1>4, <2>1, EndConverses DEF CacheMiss, records
  <2>2. CASE ~ job.replay
    <3>1. job'.messages = job.messages /\ job'.step = "ask" /\ job.step = "lookup"
      BY <1>4, <2>2 DEF CacheMiss, Go, TypeInv, JobOK, AttemptSet
    <3> QED BY <1>4, <3>1, KeepsConversing DEF Rest, CacheMiss, records
  <2> QED BY <2>1, <2>2
<1>5. CASE ProviderRaises BY <1>5, EndConverses DEF ProviderRaises, records
<1>6. ASSUME NEW rp \in Replies, ProviderAnswers(rp) PROVE ConversationInv'
  <2>1. PICK answer \in Responses :
          Covered(answer) /\ job' = [job EXCEPT !.step = "store", !.reply = answer]
    BY <1>6, Answering
  <2>2. /\ job'.messages = job.messages /\ job'.step = "store" /\ job'.reply = answer
        /\ job.step = "ask" /\ UNCHANGED responses
    BY <1>6, <2>1 DEF ProviderAnswers, records, TypeInv, JobOK, AttemptSet
  <2>3. Rest' = <<>> /\ Rest = <<>> BY <2>2 DEF Rest
  <2>4. Conversation(responses', job'.messages, Rest') BY <2>2, <2>3 DEF ConversationInv
  <2>5. \A t \in DOMAIN responses' : Covered(responses'[t]) BY <2>2 DEF ConversationInv
  <2> QED BY <2>1, <2>2, <2>4, <2>5 DEF ConversationInv
<1>7. CASE StoreResponse
  <2>1. /\ DOMAIN responses' = DOMAIN responses \cup {job.messages}
        /\ responses'[job.messages] = job.reply /\ Covered(job.reply)
    BY <1>7 DEF StoreResponse, ConversationInv
  <2>2. \A t \in DOMAIN responses : t \in DOMAIN responses' /\ responses'[t] = responses[t]
    BY <1>7 DEF StoreResponse, Unasked
  <2>3. \A t \in DOMAIN responses' : Covered(responses'[t]) BY <2>1, <2>2 DEF ConversationInv
  <2>4. Conversation(responses, job.messages, <<>>)
    BY <1>7 DEF StoreResponse, ConversationInv, Rest
  <2>5. WholeIn(responses', Full(job.messages, <<>>)) BY <2>2, <2>4, WholeStill DEF Conversation
  <2>6. Conversation(responses', job.messages, <<>>) BY <2>4, <2>5 DEF Conversation
  <2> QED BY <1>7, <2>1, <2>3, <2>6, RespondConverses DEF StoreResponse
<1>8. CASE ToolCap BY <1>8, EndConverses DEF ToolCap, records
<1>9. CASE ToolHit
  <2>1. results[Call.tool] \in Results \cup {0}
    BY <1>9, CallsGoOn DEF ToolHit, Wanted, Calling, Call, TypeInv, JobOK, AttemptSet
  <2> QED BY <1>9, <2>1, AnswerOrRaiseConverses DEF ToolHit, Wanted, Calling, records
<1>10. CASE ToolMiss
  <2>1. CASE Go("run")
    <3>1. /\ job'.messages = job.messages /\ job'.step = "run" /\ job.step = "call"
          /\ job'.calls = job.calls
      BY <1>10, <2>1 DEF ToolMiss, Wanted, Calling, Go, TypeInv, JobOK, AttemptSet
    <3> QED BY <1>10, <3>1, KeepsConversing DEF Rest, ToolMiss, records
  <2> QED BY <1>10, <2>1, EndConverses DEF ToolMiss, records
<1>11. ASSUME NEW r \in Results, Execute(r) PROVE ConversationInv'
  <2>1. /\ job'.messages = job.messages /\ job'.step = "record" /\ job.step = "run"
        /\ job'.calls = job.calls
    BY <1>11 DEF Execute, TypeInv, JobOK, AttemptSet
  <2> QED BY <1>11, <2>1, KeepsConversing DEF Rest, Execute, records
<1>12. CASE Record
  <2>1. job.result \in Results \cup {0} BY DEF TypeInv, JobOK, AttemptSet
  <2> QED BY <1>12, <2>1, AnswerOrRaiseConverses DEF Record, OnceInv, CapHolds
<1>13. CASE ToolsDone
  <2>1. CASE job.turn = MaxTurns BY <1>13, <2>1, EndConverses DEF ToolsDone, records
  <2>2. CASE job.turn # MaxTurns
    <3>1. /\ job'.messages = job.messages /\ job'.step = "turn" /\ job.step = "call"
          /\ job.calls = <<>>
      BY <1>13, <2>2 DEF ToolsDone, TypeInv, JobOK, AttemptSet
    <3> QED BY <1>13, <3>1, KeepsConversing DEF Rest, ToolsDone, records
  <2> QED BY <2>1, <2>2
<1>14. CASE Dies BY <1>14, EndConverses DEF Dies, records
<1> QED
  BY <1>1, <1>2, <1>3, <1>4, <1>5, <1>6, <1>7, <1>8, <1>9, <1>10, <1>11, <1>12, <1>13, <1>14
  DEF Next

\* A call that an exchange shows has its answer at the end of the exchange.
LEMMA ShownAreAnswered ==
  ASSUME NEW ms \in Seq(Messages), NEW i \in DOMAIN ms, ms[i].role = "assistant",
         NEW rp \in Responses, Covered(rp), StandsIn(ms, i, Exchange(rp)),
         NEW k \in DOMAIN ms[i].calls, Named(ms[i].calls[k])
  PROVE  \E j \in i + 1..Len(ms) :
           /\ ms[j].role = "tool" /\ Key(ms[j].calls[1]) = Key(ms[i].calls[k])
           /\ \A b \in i..j : Exchanged(ms[b])
<1> DEFINE x == Exchange(rp)
           n == Len(rp.shown)
<1>1. /\ n \in Nat /\ Len(rp.calls) \in Nat /\ Len(x) = n + Len(rp.calls)
      /\ DOMAIN x = 1..n + Len(rp.calls)
      /\ DOMAIN rp.shown = 1..n /\ DOMAIN rp.calls = 1..Len(rp.calls)
  BY ExchangeIs
<1>2. /\ \A d \in 1..n : x[d].calls = rp.shown[d]
      /\ \A m \in 1..Len(rp.calls) : x[n + m].role = "tool"
      /\ \A m \in 1..Len(rp.calls) : x[n + m].calls[1] = rp.calls[m]
  BY ExchangeIs
<1>3. \A d \in DOMAIN x : Exchanged(x[d]) BY ExchangeTurns
<1> HIDE DEF x, n
<1>4. PICK p \in 1..i, o \in DOMAIN x :
        /\ i - p <= Len(x) - o /\ p + (Len(x) - o) <= Len(ms)
        /\ \A e \in 0..Len(x) - o : Kind(ms[p + e]) = Kind(x[o + e])
  BY DEF StandsIn, x
<1> DEFINE L == Len(x) - o
           d == o + (i - p)
<1>0. PICK lx \in Int, lc \in Int, lm \in Int : lx = Len(x) /\ lc = Len(rp.calls) /\ lm = Len(ms)
  <2>1. Len(x) \in Int /\ Len(rp.calls) \in Int /\ Len(ms) \in Int BY <1>1
  <2> QED BY <2>1
<1>5. /\ i \in Int /\ p \in Int /\ p > 0 /\ p <= i /\ o \in Int /\ o > 0
      /\ n \in Int /\ i - p <= L /\ p + L <= lm /\ L + o = lx /\ L \in Int /\ lx = n + lc
  <2>1. i \in 1..lm BY <1>0
  <2>2. o \in 1..lx BY <1>0, <1>1
  <2>3. i - p <= lx - o /\ p + (lx - o) <= lm BY <1>0, <1>4
  <2>4. L = lx - o BY <1>0
  <2>5. n \in Int /\ lx = n + lc BY <1>0, <1>1
  <2> HIDE DEF L
  <2> QED BY <2>1, <2>2, <2>3, <2>4, <2>5
<1>6. \A e \in 0..L : Kind(ms[p + e]) = Kind(x[o + e]) BY <1>4
<1> HIDE DEF L
<1>7. d \in DOMAIN x /\ ms[i].role = x[d].role /\ ms[i].calls = x[d].calls
  <2>1. i - p \in 0..L /\ p + (i - p) = i /\ d \in 1..lx BY <1>5
  <2>2. Kind(ms[i]) = Kind(x[d]) BY <1>6, <2>1
  <2> HIDE DEF d
  <2>3. d \in DOMAIN x BY <1>0, <1>1, <2>1
  <2> QED BY <2>2, <2>3 DEF Kind
<1> HIDE DEF d
\* The message is among those said,
<1>8. d \in 1..n
  <2> SUFFICES ASSUME ~ (d \in 1..n) PROVE FALSE OBVIOUS
  <2>1. d - n \in 1..Len(rp.calls) /\ n + (d - n) = d BY <1>1, <1>7
  <2>2. x[d].role = "tool" BY <1>2, <2>1
  <2> QED BY <1>7, <2>2
<1>9. ms[i].calls = rp.shown[d] BY <1>2, <1>7, <1>8
\* so that its call was taken from the response,
<1>10. PICK m \in DOMAIN rp.calls : Key(rp.calls[m]) = Key(ms[i].calls[k])
  BY <1>1, <1>8, <1>9 DEF Covered
\* and answered behind it.
<1> DEFINE e == (n + m) - o
           j == p + e
<1>11. m \in Int /\ m > 0 /\ m <= lc BY <1>0, <1>1
<1>12. d = o + (i - p) /\ d <= n /\ d \in Int BY <1>5, <1>8 DEF d
<1>13. e \in 0..L /\ o + e = n + m /\ j \in i + 1..lm /\ j <= p + L /\ j \in Int
  <2>0. n \in Int /\ m \in Int /\ o \in Int BY <1>5, <1>11
  <2>1. e \in Int /\ o + e = n + m BY <2>0
  <2>2. e <= L BY <1>5, <1>11
  <2>3. e > i - p
    <3>1. i - p \in Int /\ o + (i - p) <= n /\ m > 0 BY <1>5, <1>11, <1>12
    <3> QED BY <2>0, <2>1, <3>1
  <2> HIDE DEF e
  <2> QED BY <1>5, <2>1, <2>2, <2>3
<1>14. Kind(ms[j]) = Kind(x[n + m]) BY <1>6, <1>13
<1>15. ms[j].role = "tool" /\ ms[j].calls[1] = rp.calls[m]
  <2>1. x[n + m].role = "tool" /\ x[n + m].calls[1] = rp.calls[m] BY <1>1, <1>2
  <2> QED BY <1>14, <2>1 DEF Kind
<1>16. ASSUME NEW b \in i..j PROVE Exchanged(ms[b])
  <2> HIDE DEF j
  <2>0. b \in Int /\ i <= b /\ b <= p + L
    <3>1. j \in Int /\ j <= p + L BY <1>13
    <3>2. b \in Int /\ i <= b /\ b <= j BY <1>5, <3>1
    <3>3. p + L \in Int BY <1>5
    <3> QED BY <3>1, <3>2, <3>3
  <2>1. b - p \in 0..L /\ p + (b - p) = b
    <3>1. p \in Int /\ L \in Int /\ i \in Int /\ p <= i BY <1>5
    <3> QED BY <2>0, <3>1
  <2>4. o + (b - p) \in 1..lx
    <3>1. p \in Int /\ L \in Int /\ o \in Int /\ o > 0 /\ lx \in Int /\ L + o = lx BY <1>5
    <3> QED BY <2>1, <3>1
  <2>2. Kind(ms[b]) = Kind(x[o + (b - p)]) BY <1>6, <2>1
  <2>3. Exchanged(x[o + (b - p)]) BY <1>0, <1>1, <1>3, <2>4
  <2> QED BY <2>2, <2>3 DEF Kind, Exchanged
<1> HIDE DEF j, e
<1> QED BY <1>0, <1>10, <1>13, <1>15, <1>16

\* What the provider is sent is a conversation: every message of its own and every answer
\* is part of an exchange on record that is whole, but for a beginning that compaction has
\* cut off and marked, and every named call it is shown is answered, for any tools, replies,
\* caps and window.
THEOREM TranscriptsAreSound == Spec => []TranscriptsSound
<1>1. Init => ConversationInv
  <2> SUFFICES ASSUME Init PROVE ConversationInv OBVIOUS
  <2>1. job.step = "over" /\ DOMAIN responses = {} BY DEF Init, Attempt
  <2> QED BY <2>1 DEF ConversationInv, At
<1>2. TypeInv /\ TypeInv' /\ OnceInv /\ ReplayInv /\ ConversationInv /\ [Next]_vars => ConversationInv'
  <2>1. ASSUME UNCHANGED vars, ConversationInv PROVE ConversationInv'
    BY <2>1 DEF vars, ConversationInv, At, Rest
  <2> QED BY <2>1, NextConverses DEF ReplayInv
<1>3. TypeInv /\ ConversationInv => TranscriptsSound
  <2> SUFFICES ASSUME TypeInv, ConversationInv, At("ask")
               PROVE  WholeExchanges(job.messages) /\ EveryCallAnswered(job.messages)
    BY DEF TranscriptsSound
  <2> DEFINE ms == job.messages
  <2>1. ms \in Seq(Messages) /\ Recorded(responses)
    BY DEF TypeInv, ResponsesOK, Recorded, JobOK, AttemptSet
  <2>2. WholeIn(responses, ms)
    BY <2>1, FullAlready DEF ConversationInv, Conversation, At, Rest
  <2>3. \A t \in DOMAIN responses : Covered(responses[t]) /\ responses[t] \in Responses
    BY <2>1 DEF ConversationInv, Recorded
  <2> HIDE DEF ms
  <2>4. WholeExchanges(ms) BY <2>2 DEF WholeIn, WholeExchanges
  <2>5. EveryCallAnswered(ms)
    <3> SUFFICES ASSUME NEW i \in DOMAIN ms, ms[i].role = "assistant",
                        NEW k \in DOMAIN ms[i].calls, Named(ms[i].calls[k])
                 PROVE  \E j \in i + 1..Len(ms) :
                          /\ ms[j].role = "tool" /\ Key(ms[j].calls[1]) = Key(ms[i].calls[k])
                          /\ \A b \in i..j : Exchanged(ms[b])
      BY DEF EveryCallAnswered
    <3>1. Exchanged(ms[i]) BY DEF Exchanged
    <3>2. PICK t \in DOMAIN responses : StandsIn(ms, i, Exchange(responses[t]))
      BY <2>2, <3>1 DEF WholeIn
    <3>3. Covered(responses[t]) /\ responses[t] \in Responses BY <2>3
    <3> QED BY <2>1, <3>2, <3>3, ShownAreAnswered
  <2> QED BY <2>4, <2>5 DEF ms
<1>4. Spec => [](ConversationInv) BY <1>1, <1>2, Replays, Inductive, PTL DEF Spec
<1> QED BY <1>3, <1>4, Inductive, PTL
=============================================================================
