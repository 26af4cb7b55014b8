------------------------ MODULE ProviderBudgetProofs ------------------------
(***************************************************************************)
(* For any processes, requests, limits and deaths: the types of            *)
(* ProviderBudget are right; no warning is a false alarm and none is       *)
(* missing, and a process that works alone repeats one only after a death; *)
(* and its ledger follows the run's entries.  Of processes that send one   *)
(* request at a time: a stored response is never paid for again, and one   *)
(* that works alone stays within its budget.                               *)
(***************************************************************************)
EXTENDS ProviderBudget, SequenceTheorems, FiniteSetTheorems, TLAPS

-----------------------------------------------------------------------------
(* Types.                                                                  *)

Recording == {"load", "entry", "warn", "write"}

Shapes == [step : Steps, todo : Seq(Requests), misses : Seq(Requests), usage : Seq(1..MaxUsage),
           charge : 0..MaxUsage, mine : Ledgers, back : {"idle", "lookup", "store"}]

\* There is an answer for every request that is still to be stored.
JobOK(j) ==
  /\ j \in Shapes
  /\ j.step \in {"lookup", "check"} \/ (j.step \in Recording /\ j.back = "lookup") => j.usage = <<>>
  /\ j.step = "ask" => Len(j.usage) + Len(j.todo) = Len(j.misses)
  /\ j.step = "store" \/ (j.step \in Recording /\ j.back = "store") => Len(j.usage) = Len(j.todo)
  /\ j.step \in Recording => j.back \in {"lookup", "store"}

JobsOK == job \in [Procs -> Shapes] /\ \A p \in Procs : JobOK(job[p])

\* Nothing happens to a process outside the team.
OutsideIdle == \A p \in Procs \ team : job[p] = Idle

RestOK ==
  /\ team \in (SUBSET Procs) \ {{}}
  /\ held \in [Requests -> 0..MaxUsage]
  /\ ledger \in Ledgers
  /\ entries \in [calls : Nat, tokens : Nat]
  /\ warnings \in [Codes -> Nat]
  /\ asked \in [Requests -> Nat] /\ spent \in [calls : Nat, tokens : Nat]
  /\ now \in 0..Bound(MaxTime) /\ last \in 0..Bound(MaxTime)
  /\ ops \in 0..Bound(MaxOps) /\ crashes \in 0..MaxCrashes

TypeInv == RestOK /\ JobsOK /\ OutsideIdle

\* A process between two operations.
LEMMA IdleOK == JobOK(Idle)
<1>1. Empty \in Ledgers
  BY DEF Empty, Ledgers
<1>2. Idle \in Shapes
  BY <1>1, BudgetAssumption DEF Idle, Shapes, Steps
<1> QED
  BY <1>2 DEF JobOK, Idle, Recording

\* What a process of the team sets its job to is all that changes of the jobs.
LEMMA SetKeeps ==
  ASSUME JobsOK, OutsideIdle, NEW p \in team, team \subseteq Procs, NEW j, JobOK(j), Set(p, j), team' = team
  PROVE  JobsOK' /\ OutsideIdle'
<1>1. job' = [job EXCEPT ![p] = j]
  BY DEF Set
<1>2. j \in Shapes
  BY DEF JobOK
<1>3. job' \in [Procs -> Shapes] /\ \A q \in Procs : job'[q] = IF q = p THEN j ELSE job[q]
  BY <1>1, <1>2 DEF JobsOK
<1>4. \A q \in Procs : JobOK(job'[q])
  BY <1>3 DEF JobsOK
<1> QED
  BY <1>3, <1>4 DEF JobsOK, OutsideIdle

\* The head and the tail of what is left to do.
LEMMA DropOK ==
  ASSUME NEW S, NEW s \in Seq(S), s # <<>>
  PROVE  Head(s) \in S /\ Tail(s) \in Seq(S) /\ Len(Tail(s)) = Len(s) - 1 /\ Len(s) > 0
  OBVIOUS

\* A batch is a sequence of requests.
LEMMA BatchesAre ==
  ASSUME NEW hs \in Batches
  PROVE  hs \in Seq(Requests)
<1>1. PICK n \in 1..MaxBatch : hs \in [1..n -> Requests]
  BY DEF Batches
<1>2. n \in Nat
  BY BudgetAssumption
<1> QED
  BY <1>1, <1>2

\* Bounds are numbers.
LEMMA BoundsAre ==
  ASSUME team \in (SUBSET Procs) \ {{}}
  PROVE  Bound(MaxOps) \in Nat /\ Bound(MaxTime) \in Nat
<1>1. IsFiniteSet(Procs) /\ IsFiniteSet(team) /\ Cardinality(team) <= Cardinality(Procs)
  BY FS_Subset, BudgetAssumption
<1>2. Cardinality(team) \in Nat /\ Cardinality(Procs) \in Nat
  BY <1>1, FS_CardinalityType
<1>3. Cardinality(team) # 0
  BY <1>1, FS_EmptySet
<1>4. Cardinality(team) \in 1..Cardinality(Procs)
  BY <1>1, <1>2, <1>3
<1> QED
  BY <1>4, BudgetAssumption DEF Bound

\* Looking up keeps the jobs in shape,
LEMMA LookupJobs ==
  ASSUME TypeInv, NEW p \in team, team' = team,
         \/ \E hs \in Batches : Start(p, hs)
         \/ CacheHit(p) \/ CacheMiss(p) \/ LookedUp(p)
  PROVE  JobsOK' /\ OutsideIdle'
<1> DEFINE j == job[p]
<1>0. p \in Procs /\ team \subseteq Procs /\ JobOK(j) /\ j \in Shapes
  BY DEF TypeInv, RestOK, JobsOK
<1>1. ASSUME NEW hs \in Batches, Start(p, hs) PROVE JobsOK' /\ OutsideIdle'
  <2>1. hs \in Seq(Requests) BY BatchesAre
  <2>2. JobOK([Idle EXCEPT !.step = "lookup", !.todo = hs])
    BY <2>1, IdleOK DEF JobOK, Idle, Shapes, Steps, Recording
  <2> QED BY <1>0, <1>1, <2>2, SetKeeps DEF Start, TypeInv
<1>2. CASE CacheHit(p)
  <2>1. /\ j.step = "lookup" /\ First(p) \in Requests /\ Tail(j.todo) \in Seq(Requests)
        /\ held[First(p)] \in 0..MaxUsage
    BY <1>0, <1>2, DropOK DEF CacheHit, At, More, First, Shapes, TypeInv, RestOK
  <2>2. JobOK([Drop(j) EXCEPT !.step = "load", !.charge = held[First(p)], !.back = "lookup"])
    BY <1>0, <2>1 DEF JobOK, Drop, Shapes, Steps, Recording
  <2> QED BY <1>0, <1>2, <2>2, SetKeeps DEF CacheHit, TypeInv
<1>3. CASE CacheMiss(p)
  <2>1. j.step = "lookup" /\ First(p) \in Requests /\ Tail(j.todo) \in Seq(Requests)
    BY <1>0, <1>3, DropOK DEF CacheMiss, At, More, First, Shapes
  <2>2. Append(j.misses, First(p)) \in Seq(Requests)
    BY <1>0, <2>1 DEF Shapes
  <2>3. JobOK([Drop(j) EXCEPT !.misses = Append(@, First(p))])
    BY <1>0, <2>1, <2>2 DEF JobOK, Drop, Shapes, Recording
  <2> QED BY <1>0, <1>3, <2>3, SetKeeps DEF CacheMiss, TypeInv
<1>4. CASE LookedUp(p)
  <2>1. JobOK(Then(j, "check"))
    BY <1>0, <1>4 DEF LookedUp, At, JobOK, Then, Shapes, Steps, Recording
  <2> QED BY <1>0, <1>4, <2>1, IdleOK, SetKeeps DEF LookedUp, TypeInv
<1> QED
  BY <1>1, <1>2, <1>3, <1>4

\* checking and asking do,
LEMMA AskJobs ==
  ASSUME TypeInv, NEW p \in team, team' = team,
         \/ CheckPasses(p) \/ CheckFails(p) \/ Checked(p)
         \/ \E tokens \in 1..MaxUsage : Answer(p, tokens)
         \/ Answered(p)
  PROVE  JobsOK' /\ OutsideIdle'
<1> DEFINE j == job[p]
<1>0. p \in Procs /\ team \subseteq Procs /\ JobOK(j) /\ j \in Shapes /\ ledger \in Ledgers
  BY DEF TypeInv, RestOK, JobsOK
<1>1. CASE CheckPasses(p)
  <2>1. j.step = "check" /\ Tail(j.todo) \in Seq(Requests)
    BY <1>0, <1>1, DropOK DEF CheckPasses, At, More, Shapes
  <2>2. JobOK(Drop(j))
    BY <1>0, <2>1 DEF JobOK, Drop, Shapes, Recording
  <2> QED BY <1>0, <1>1, <2>2, SetKeeps DEF CheckPasses, TypeInv
<1>2. CASE CheckFails(p)
  <2>1. JobOK([j EXCEPT !.step = "refuse", !.mine = ledger])
    BY <1>0, <1>2 DEF CheckFails, At, JobOK, Shapes, Steps, Recording
  <2> QED BY <1>0, <1>2, <2>1, SetKeeps DEF CheckFails, TypeInv
<1>3. CASE Checked(p)
  <2>1. /\ j.usage = <<>> /\ Len(j.usage) = 0
        /\ j.misses \in Seq(Requests) /\ Len(j.misses) \in Nat
    BY <1>0, <1>3 DEF Checked, At, JobOK, Shapes
  <2> DEFINE n == Then(j, "ask")
  <2>2. n \in Shapes
    BY <1>0, <2>1 DEF Then, Shapes, Steps
  <2>3. n.step = "ask" /\ n.todo = j.misses /\ n.misses = j.misses /\ n.usage = j.usage
    BY <1>0 DEF Then, Shapes
  <2> HIDE DEF n
  <2>4. Len(n.usage) + Len(n.todo) = Len(n.misses)
    BY <2>1, <2>3
  <2>5. JobOK(n)
    BY <2>2, <2>3, <2>4 DEF JobOK, Recording
  <2> QED BY <1>0, <1>3, <2>5, SetKeeps DEF Checked, TypeInv, n
<1>4. ASSUME NEW tokens \in 1..MaxUsage, Answer(p, tokens) PROVE JobsOK' /\ OutsideIdle'
  <2>1. j.step = "ask" /\ Tail(j.todo) \in Seq(Requests) /\ Len(Tail(j.todo)) = Len(j.todo) - 1
    BY <1>0, <1>4, DropOK DEF Answer, At, More, Shapes
  <2>2. /\ Append(j.usage, tokens) \in Seq(1..MaxUsage)
        /\ Len(Append(j.usage, tokens)) = Len(j.usage) + 1
    BY <1>0 DEF Shapes
  <2>3. Len(j.todo) \in Nat /\ Len(j.usage) \in Nat /\ Len(j.misses) \in Nat
    BY <1>0 DEF Shapes
  <2> DEFINE n == [Drop(j) EXCEPT !.usage = Append(@, tokens)]
  <2>4. n \in Shapes
    BY <1>0, <2>1, <2>2 DEF Drop, Shapes
  <2>5. /\ n.step = "ask" /\ n.todo = Tail(j.todo) /\ n.misses = j.misses
        /\ n.usage = Append(j.usage, tokens)
    BY <1>0, <2>1 DEF Drop, Shapes
  <2>6. Len(j.usage) + Len(j.todo) = Len(j.misses)
    BY <1>0, <2>1 DEF JobOK
  <2> HIDE DEF n
  <2>7. Len(n.usage) + Len(n.todo) = Len(n.misses)
    <3>1. Len(n.usage) = Len(j.usage) + 1 /\ Len(n.todo) = Len(j.todo) - 1
      BY <2>1, <2>2, <2>5
    <3> DEFINE u == Len(j.usage)  t == Len(j.todo)  m == Len(j.misses)
    <3>2. u \in Nat /\ t \in Nat /\ m \in Nat /\ u + t = m
      BY <2>3, <2>6
    <3>3. Len(n.usage) = u + 1 /\ Len(n.todo) = t - 1 /\ Len(n.misses) = m
      BY <2>5, <3>1
    <3> HIDE DEF u, t, m
    <3> QED BY <3>2, <3>3
  <2>8. JobOK(n)
    BY <2>4, <2>5, <2>7 DEF JobOK, Recording
  <2> QED BY <1>0, <1>4, <2>8, SetKeeps DEF Answer, TypeInv, n
<1>5. CASE Answered(p)
  <2>1. j.step = "ask" /\ Len(j.usage) = Len(j.misses) /\ j.misses \in Seq(Requests)
    <3>1. j.step = "ask" /\ j.todo = <<>>
      BY <1>5 DEF Answered, At, More
    <3>2. Len(j.todo) = 0 /\ Len(j.usage) \in Nat /\ Len(j.misses) \in Nat
      BY <1>0, <3>1 DEF Shapes
    <3> QED BY <1>0, <3>1, <3>2 DEF JobOK, Shapes
  <2>2. JobOK(Then(j, "store"))
    BY <1>0, <2>1 DEF JobOK, Then, Shapes, Steps, Recording
  <2> QED BY <1>0, <1>5, <2>2, SetKeeps DEF Answered, TypeInv
<1> QED
  BY <1>1, <1>2, <1>3, <1>4, <1>5

\* storing and recording do.
LEMMA RecordJobs ==
  ASSUME TypeInv, NEW p \in team, team' = team,
         \/ Refuse(p) \/ Raises(p) \/ StoreResponse(p) \/ Returns(p) \/ Crash(p)
         \/ Load(p) \/ AppendEntry(p) \/ Warn(p) \/ Warned(p) \/ WriteLedger(p)
  PROVE  JobsOK' /\ OutsideIdle'
<1> DEFINE j == job[p]
<1>0. p \in Procs /\ team \subseteq Procs /\ JobOK(j) /\ j \in Shapes /\ ledger \in Ledgers
  BY DEF TypeInv, RestOK, JobsOK
<1>1. CASE Refuse(p) \/ Raises(p) \/ Returns(p) \/ Crash(p)
  BY <1>0, <1>1, IdleOK, SetKeeps DEF Refuse, Raises, Returns, Crash, TypeInv
<1>2. CASE StoreResponse(p)
  <2>1. j.step = "store" /\ j.todo # <<>> /\ Len(j.usage) = Len(j.todo)
    BY <1>0, <1>2 DEF StoreResponse, At, More, JobOK
  <2>2. j.usage # <<>>
    BY <1>0, <2>1 DEF Shapes
  <2>3. /\ Tail(j.todo) \in Seq(Requests) /\ Len(Tail(j.todo)) = Len(j.todo) - 1
        /\ Tail(j.usage) \in Seq(1..MaxUsage) /\ Len(Tail(j.usage)) = Len(j.usage) - 1
        /\ Head(j.usage) \in 1..MaxUsage
    BY <1>0, <2>1, <2>2, DropOK DEF Shapes
  <2>4. Head(j.usage) \in 0..MaxUsage
    BY <2>3, BudgetAssumption
  <2>5. JobOK([Drop(j) EXCEPT !.step = "load", !.back = "store",
                              !.charge = Head(j.usage), !.usage = Tail(@)])
    BY <1>0, <2>1, <2>3, <2>4 DEF JobOK, Drop, Shapes, Steps, Recording
  <2> QED BY <1>0, <1>2, <2>5, SetKeeps DEF StoreResponse, TypeInv
<1>3. CASE Load(p)
  <2>1. ledger.calls + 1 \in Nat /\ ledger.tokens + j.charge \in Nat
    BY <1>0, BudgetAssumption, SMTT(20) DEF Ledgers, Shapes
  <2>2. [ledger EXCEPT !.calls = @ + 1, !.tokens = @ + job[p].charge] \in Ledgers
    BY <1>0, <2>1 DEF Ledgers
  <2>3. JobOK([j EXCEPT !.step = "entry",
                 !.mine = [ledger EXCEPT !.calls = @ + 1, !.tokens = @ + job[p].charge]])
    BY <1>0, <1>3, <2>2 DEF Load, At, JobOK, Shapes, Steps, Recording
  <2> QED BY <1>0, <1>3, <2>3, SetKeeps DEF Load, TypeInv
<1>4. CASE AppendEntry(p)
  <2>1. JobOK([j EXCEPT !.step = "warn"])
    BY <1>0, <1>4 DEF AppendEntry, At, JobOK, Shapes, Steps, Recording
  <2> QED BY <1>0, <1>4, <2>1, SetKeeps DEF AppendEntry, TypeInv
<1>5. CASE Warn(p)
  <2>1. PICK c \in Due(j.mine) \ j.mine.warned : Set(p, [j EXCEPT !.mine.warned = @ \cup {c}])
    BY <1>5 DEF Warn
  <2>2. c \in Codes /\ j.mine \in Ledgers
    BY <1>0 DEF Due, Shapes
  <2>3. [j.mine EXCEPT !.warned = @ \cup {c}] \in Ledgers
    BY <2>2 DEF Ledgers
  <2>4. JobOK([j EXCEPT !.mine = [j.mine EXCEPT !.warned = @ \cup {c}]])
    BY <1>0, <1>5, <2>3 DEF Warn, At, JobOK, Shapes, Recording
  <2> QED BY <1>0, <2>1, <2>4, SetKeeps DEF TypeInv
<1>6. CASE Warned(p)
  <2>1. JobOK([j EXCEPT !.step = "write"])
    BY <1>0, <1>6 DEF Warned, At, JobOK, Shapes, Steps, Recording
  <2> QED BY <1>0, <1>6, <2>1, SetKeeps DEF Warned, TypeInv
<1>7. CASE WriteLedger(p)
  <2>1. JobOK([j EXCEPT !.step = j.back])
    BY <1>0, <1>7 DEF WriteLedger, WriteAs, At, JobOK, Shapes, Steps, Recording
  <2> QED BY <1>0, <1>7, <2>1, SetKeeps DEF WriteLedger, WriteAs, TypeInv
<1> QED
  BY <1>1, <1>2, <1>3, <1>4, <1>5, <1>6, <1>7

\* The rest of a step keeps the other variables' types.
LEMMA RestTypes ==
  ASSUME TypeInv, [Next]_vars
  PROVE  RestOK'
<1>0. /\ RestOK /\ JobsOK /\ team \subseteq Procs
      /\ Bound(MaxOps) \in Nat /\ Bound(MaxTime) \in Nat
  BY BoundsAre DEF TypeInv, RestOK
<1> DEFINE Frame == Bound(MaxOps)' = Bound(MaxOps) /\ Bound(MaxTime)' = Bound(MaxTime) /\ team' = team
<1>1. Frame
  BY DEF Next, vars, Bound
<1>2. ASSUME NEW p \in team PROVE p \in Procs /\ JobOK(job[p]) /\ job[p] \in Shapes
  BY <1>0 DEF JobsOK
<1>3. ASSUME NEW p \in team, NEW hs \in Batches, Start(p, hs) PROVE RestOK'
  BY <1>0, <1>1, <1>3 DEF Start, RestOK, log, provider, bounds
<1>4. ASSUME NEW p \in team, Refuse(p) PROVE RestOK'
  <2>1. job[p].mine \in Ledgers BY <1>2 DEF Shapes
  <2> QED BY <1>0, <1>1, <1>4, <2>1 DEF Refuse, RestOK, log, provider, bounds
<1>5. ASSUME NEW p \in team, CheckPasses(p) PROVE RestOK'
  BY <1>0, <1>1, <1>5 DEF CheckPasses, RestOK, log, bounds
<1>6. ASSUME NEW p \in team, NEW tokens \in 1..MaxUsage, Answer(p, tokens) PROVE RestOK'
  <2>1. asked' \in [Requests -> Nat]
    <3>1. job[p].todo # <<>> /\ job[p].todo \in Seq(Requests)
      BY <1>2, <1>6 DEF Answer, More, Shapes
    <3>2. First(p) \in Requests
      BY <3>1, DropOK DEF First
    <3> QED BY <1>0, <1>6, <3>2, SMTT(20) DEF Answer, RestOK
  <2>2. spent' \in [calls : Nat, tokens : Nat]
    <3>1. tokens \in Nat BY BudgetAssumption
    <3>2. spent.calls \in Nat /\ spent.tokens \in Nat BY <1>0 DEF RestOK
    <3>3. spent' = [calls |-> spent.calls + 1, tokens |-> spent.tokens + tokens]
      BY <1>6 DEF Answer
    <3> QED BY <3>1, <3>2, <3>3
  <2>3. UNCHANGED <<team, held, ledger, entries, warnings, last, now, ops, crashes>>
    BY <1>1, <1>6 DEF Answer, log, bounds
  <2> QED BY <1>0, <1>1, <2>1, <2>2, <2>3 DEF RestOK
<1>7. ASSUME NEW p \in team, StoreResponse(p) PROVE RestOK'
  <2>1. job[p].usage # <<>> /\ job[p].usage \in Seq(1..MaxUsage)
    <3>1. /\ job[p].todo # <<>> /\ Len(job[p].usage) = Len(job[p].todo)
          /\ job[p].todo \in Seq(Requests) /\ job[p].usage \in Seq(1..MaxUsage)
      BY <1>2, <1>7 DEF StoreResponse, At, More, JobOK, Shapes
    <3> QED BY <3>1
  <2>2. Head(job[p].usage) \in 1..MaxUsage
    BY <2>1, DropOK
  <2>3. Head(job[p].usage) \in 0..MaxUsage
    BY <2>2, BudgetAssumption
  <2>4. held' \in [Requests -> 0..MaxUsage]
    BY <1>0, <1>7, <2>3 DEF StoreResponse, RestOK
  <2> QED BY <1>0, <1>1, <1>7, <2>4 DEF StoreResponse, RestOK, log, provider, bounds
<1>8. ASSUME NEW p \in team, AppendEntry(p) PROVE RestOK'
  <2>1. job[p].charge \in Nat BY <1>2, BudgetAssumption DEF Shapes
  <2>2. entries' \in [calls : Nat, tokens : Nat]
    BY <1>0, <1>8, <2>1 DEF AppendEntry, RestOK
  <2> QED BY <1>0, <1>1, <1>8, <2>2 DEF AppendEntry, RestOK, provider, bounds
<1>9. ASSUME NEW p \in team, Warn(p) PROVE RestOK'
  <2>1. PICK c \in Due(job[p].mine) : warnings' = [warnings EXCEPT ![c] = @ + 1]
    BY <1>9 DEF Warn
  <2>2. warnings' \in [Codes -> Nat]
    BY <1>0, <2>1 DEF Due, RestOK
  <2> QED BY <1>0, <1>1, <1>9, <2>2 DEF Warn, RestOK, provider, bounds
<1>10. ASSUME NEW p \in team, WriteLedger(p) PROVE RestOK'
  <2>1. job[p].mine \in Ledgers BY <1>2 DEF Shapes
  <2> QED BY <1>0, <1>1, <1>10, <2>1 DEF WriteLedger, WriteAs, RestOK, log, provider, bounds
<1>11. ASSUME NEW p \in team, Crash(p) PROVE RestOK'
  BY <1>0, <1>1, <1>11, BudgetAssumption DEF Crash, RestOK, log, provider
<1>12. CASE Tick
  BY <1>0, <1>1, <1>12 DEF Tick, RestOK, log, provider
<1>13. CASE UNCHANGED <<held, ledger, log, provider, bounds>>
  BY <1>0, <1>1, <1>13 DEF RestOK, log, provider, bounds
<1>14. UNCHANGED vars => UNCHANGED <<held, ledger, log, provider, bounds>>
  BY DEF vars, log, provider, bounds
<1>15. ASSUME NEW p \in team,
              \/ CacheHit(p) \/ CacheMiss(p) \/ LookedUp(p) \/ CheckFails(p) \/ Checked(p)
              \/ Answered(p) \/ Raises(p) \/ Returns(p) \/ Load(p) \/ Warned(p)
       PROVE  UNCHANGED <<held, ledger, log, provider, bounds>>
  BY <1>15 DEF CacheHit, CacheMiss, LookedUp, CheckFails, Checked, Answered, Raises, Returns, Load, Warned
<1> QED
  BY <1>3, <1>4, <1>5, <1>6, <1>7, <1>8, <1>9, <1>10, <1>11, <1>12, <1>13, <1>14, <1>15 DEF Next, Step

\* Every variable keeps to its values, for any team; answers never run out before the
\* requests that they are for.
THEOREM TypeCorrect == Spec => []TypeInv
<1>1. Init => TypeInv
  <2> SUFFICES ASSUME Init PROVE TypeInv OBVIOUS
  <2>1. Empty \in Ledgers /\ Idle \in Shapes
    BY IdleOK DEF Empty, Ledgers, JobOK
  <2>2. Bound(MaxOps) \in Nat /\ Bound(MaxTime) \in Nat
    BY BoundsAre DEF Init
  <2>3. RestOK
    BY <2>1, <2>2, BudgetAssumption DEF Init, RestOK
  <2>4. JobsOK /\ OutsideIdle
    BY <2>1, IdleOK DEF Init, JobsOK, OutsideIdle
  <2> QED BY <2>3, <2>4 DEF TypeInv
<1>2. TypeInv /\ [Next]_vars => TypeInv'
  <2> SUFFICES ASSUME TypeInv, [Next]_vars PROVE JobsOK' /\ OutsideIdle'
    BY RestTypes DEF TypeInv
  <2>1. CASE Tick \/ UNCHANGED vars
    <3>1. UNCHANGED <<job, team>> BY <2>1 DEF Tick, vars, Next
    <3> QED BY <3>1 DEF TypeInv, JobsOK, OutsideIdle
  <2>2. ASSUME NEW p \in team, Step(p), team' = team PROVE JobsOK' /\ OutsideIdle'
    BY <2>2, LookupJobs, AskJobs, RecordJobs DEF Step
  <2> QED BY <2>1, <2>2 DEF Next
<1> QED
  BY <1>1, <1>2, PTL DEF Spec

\* A sequence over a set is one over a larger set.
LEMMA SeqGrows ==
  ASSUME NEW S, NEW T, S \subseteq T, NEW s \in Seq(S)
  PROVE  s \in Seq(T)
<1>1. Len(s) \in Nat /\ s \in [1..Len(s) -> S]
  OBVIOUS
<1>2. s \in [1..Len(s) -> T]
  BY <1>1
<1> QED
  BY <1>1, <1>2

\* The types as the module states them.
THEOREM TypesAreRight == Spec => []TypeOK
<1>1. TypeInv => TypeOK
  <2> SUFFICES ASSUME TypeInv PROVE job \in [Procs -> Jobs]
    BY DEF TypeInv, RestOK, TypeOK
  <2>1. 1..MaxUsage \subseteq Nat /\ 0..MaxUsage \subseteq Nat
    BY BudgetAssumption
  <2>2. ASSUME NEW j \in Shapes PROVE j \in Jobs
    <3>1. j.usage \in Seq(Nat) /\ j.charge \in Nat
      <4>1. j.usage \in Seq(1..MaxUsage) /\ j.charge \in 0..MaxUsage
        BY DEF Shapes
      <4> QED BY <2>1, <4>1, SeqGrows
    <3>2. j = [step |-> j.step, todo |-> j.todo, misses |-> j.misses, usage |-> j.usage,
               charge |-> j.charge, mine |-> j.mine, back |-> j.back]
      BY DEF Shapes
    <3> QED BY <3>1, <3>2 DEF Shapes, Jobs, Steps
  <2> QED BY <2>2 DEF TypeInv, JobsOK
<1> QED
  BY <1>1, TypeCorrect, PTL

-----------------------------------------------------------------------------
(* Warnings and entries.                                                   *)

Told    == {c \in Codes : warnings[c] > 0}
Counted == {"entry", "warn", "write"}
Holding == Counted \cup {"refuse"}

\* No ledger counts more than the entries, but for the one that its process is about to
\* append.
LedgersBehind ==
  /\ ledger.calls <= entries.calls /\ ledger.tokens <= entries.tokens
  /\ \A p \in Procs :
       /\ job[p].step = "entry" =>
            /\ job[p].mine.calls <= entries.calls + 1
            /\ job[p].mine.tokens <= entries.tokens + job[p].charge
       /\ job[p].step \in {"warn", "write", "refuse"} =>
            job[p].mine.calls <= entries.calls /\ job[p].mine.tokens <= entries.tokens

\* A ledger that is written, or about to be, says what was warned about, and that is
\* all that was due.
LedgersWarned ==
  /\ ledger.warned \subseteq Told /\ Due(ledger) \subseteq ledger.warned
  /\ \A p \in Procs :
       /\ job[p].step \in Holding => job[p].mine.warned \subseteq Told
       /\ job[p].step \in {"write", "refuse"} => Due(job[p].mine) \subseteq job[p].mine.warned
  /\ \A c \in Told : Reached(entries, c)

Known(p) == IF job[p].step \in Counted THEN job[p].mine.warned ELSE ledger.warned

\* What a process that works alone has in hand is the ledger and its own entry; beyond
\* that, each entry and each warning took a death.
AloneExact ==
  \A p \in Procs : team = {p} =>
    /\ job[p].step \in Counted =>
         /\ job[p].mine.calls = ledger.calls + 1 /\ ledger.warned \subseteq job[p].mine.warned
         /\ job[p].mine.tokens = ledger.tokens + job[p].charge
    /\ job[p].step = "refuse" => job[p].mine = ledger
    /\ entries.calls <= ledger.calls + crashes + (IF job[p].step \in {"warn", "write"} THEN 1 ELSE 0)
    /\ \A c \in Codes : warnings[c] <= crashes + (IF c \in Known(p) THEN 1 ELSE 0)

BudgetInv == LedgersBehind /\ LedgersWarned /\ AloneExact

\* Thresholds stay reached as a ledger grows.
LEMMA ReachedGrows ==
  ASSUME NEW l, NEW m, l.calls \in Nat, l.tokens \in Nat, m.calls \in Nat, m.tokens \in Nat,
         l.calls <= m.calls, l.tokens <= m.tokens, NEW c \in Codes, Reached(l, c)
  PROVE  Reached(m, c)
<1>1. Used(l, c[1]) \in Nat /\ Used(m, c[1]) \in Nat /\ Used(l, c[1]) <= Used(m, c[1])
  BY DEF Used
<1>2. Limit(c[1]) \in Nat
  BY BudgetAssumption DEF Limit
<1>3. CASE c[2] = 50
  BY <1>1, <1>2, <1>3 DEF Reached
<1>4. CASE c[2] = 80
  BY <1>1, <1>2, <1>4 DEF Reached
<1>5. CASE c[2] = 100
  BY <1>1, <1>2, <1>5 DEF Reached
<1> QED
  BY <1>3, <1>4, <1>5 DEF Codes

\* What is due of a ledger is what it has reached.
LEMMA DueIsReached ==
  ASSUME NEW l, NEW c
  PROVE  c \in Due(l) <=> c \in Codes /\ Reached(l, c)
  BY DEF Due, Reached

\* A step by which nothing is counted, and after which a process holds a ledger only if
\* it is the one it held.
Untouched ==
  /\ UNCHANGED <<team, ledger, entries, warnings>>
  /\ crashes' \in Nat /\ crashes <= crashes'
  /\ \A q \in Procs : \/ job'[q] = job[q]
                      \/ /\ job'[q].step \notin Holding
                         /\ job[q].step \notin Counted \/ crashes' = crashes + 1

\* Such a step keeps the invariant.
LEMMA UntouchedStep ==
  ASSUME TypeInv, BudgetInv, Untouched
  PROVE  BudgetInv'
<1> USE DEF Untouched
<1>1. LedgersBehind'
  BY DEF BudgetInv, LedgersBehind, Holding, Counted
<1>2. LedgersWarned'
  <2>1. Told' = Told /\ Due(ledger)' = Due(ledger)
    BY DEF Told, Due, Used
  <2>2. \A q \in Procs : job'[q] = job[q] => Due(job[q].mine)' = Due(job[q].mine)
    BY DEF Due, Used
  <2> QED
    BY <2>1, <2>2 DEF BudgetInv, LedgersWarned, Holding, Counted, Reached, Used
<1>3. AloneExact'
  <2> SUFFICES ASSUME NEW p \in Procs, team = {p}
               PROVE  /\ job'[p].step \in Counted =>
                           /\ job'[p].mine.calls = ledger.calls + 1
                           /\ ledger.warned \subseteq job'[p].mine.warned
                           /\ job'[p].mine.tokens = ledger.tokens + job'[p].charge
                      /\ job'[p].step = "refuse" => job'[p].mine = ledger
                      /\ entries.calls <= ledger.calls + crashes'
                            + (IF job'[p].step \in {"warn", "write"} THEN 1 ELSE 0)
                      /\ \A c \in Codes : warnings[c] <= crashes' + (IF c \in Known(p)' THEN 1 ELSE 0)
    BY DEF AloneExact
  <2>0. /\ crashes \in Nat /\ entries.calls \in Nat /\ ledger.calls \in Nat
        /\ \A c \in Codes : warnings[c] \in Nat
    BY BudgetAssumption DEF TypeInv, RestOK, Ledgers
  <2>1. CASE job'[p] = job[p]
    <3>1. Known(p)' = Known(p) BY <2>1 DEF Known
    <3> QED BY <2>0, <2>1, <3>1 DEF BudgetInv, AloneExact
  <2>2. CASE job'[p].step \notin Holding /\ job[p].step \notin Counted
    <3>1. Known(p)' = Known(p) BY <2>2 DEF Known, Holding
    <3> QED BY <2>0, <2>2, <3>1 DEF BudgetInv, AloneExact, Holding, Counted
  <2>3. CASE job'[p].step \notin Holding /\ crashes' = crashes + 1
    BY <2>0, <2>3 DEF BudgetInv, AloneExact, Holding, Counted
  <2> QED BY <2>1, <2>2, <2>3
<1> QED
  BY <1>1, <1>2, <1>3 DEF BudgetInv

\* Every step but those that touch a ledger or the log is one of these.
LEMMA OthersLeaveIt ==
  ASSUME TypeInv, team' = team,
         \/ UNCHANGED vars \/ Tick
         \/ \E p \in team :
              \/ \E hs \in Batches : Start(p, hs)
              \/ CacheHit(p) \/ CacheMiss(p) \/ LookedUp(p) \/ CheckPasses(p) \/ Checked(p)
              \/ \E tokens \in 1..MaxUsage : Answer(p, tokens)
              \/ Answered(p) \/ Raises(p) \/ StoreResponse(p) \/ Returns(p) \/ Crash(p)
  PROVE  Untouched
<1>0. /\ team \subseteq Procs /\ crashes \in Nat
      /\ job \in [Procs -> Shapes]
  BY BudgetAssumption DEF TypeInv, RestOK, JobsOK
<1>1. CASE UNCHANGED vars \/ Tick
  BY <1>0, <1>1 DEF vars, Tick, log, Untouched
<1>2. ASSUME NEW p \in team, NEW j, Set(p, j), j.step \notin Holding, job[p].step \notin Counted,
             UNCHANGED <<ledger, entries, warnings, crashes>>
      PROVE  Untouched
  BY <1>0, <1>2 DEF Untouched, Set
<1>3. ASSUME NEW p \in team, NEW hs \in Batches, Start(p, hs) PROVE Untouched
  BY <1>2, <1>3 DEF Start, Idle, At, Holding, Counted, log
<1>4. ASSUME NEW p \in team, CacheHit(p) \/ CacheMiss(p) \/ LookedUp(p) PROVE Untouched
  <2>1. p \in Procs /\ job[p] \in Shapes BY <1>0
  <2>2. CASE CacheHit(p)
    BY <1>2, <2>1, <2>2 DEF CacheHit, Drop, Shapes, At, Holding, Counted, log, bounds
  <2>3. CASE CacheMiss(p)
    BY <1>2, <2>1, <2>3 DEF CacheMiss, Drop, Shapes, At, Holding, Counted, log, bounds
  <2>4. CASE LookedUp(p)
    BY <1>2, <2>1, <2>4 DEF LookedUp, Then, Idle, Shapes, At, Holding, Counted, log, bounds
  <2> QED BY <1>4, <2>2, <2>3, <2>4
<1>5. ASSUME NEW p \in team, CheckPasses(p) \/ Checked(p) \/ Answered(p) PROVE Untouched
  <2>1. p \in Procs /\ job[p] \in Shapes BY <1>0
  <2>2. CASE CheckPasses(p)
    BY <1>2, <2>1, <2>2 DEF CheckPasses, Drop, Shapes, At, Holding, Counted, log, bounds
  <2>3. CASE Checked(p)
    BY <1>2, <2>1, <2>3 DEF Checked, Then, Shapes, At, Holding, Counted, log, bounds
  <2>4. CASE Answered(p)
    BY <1>2, <2>1, <2>4 DEF Answered, Then, Shapes, At, Holding, Counted, log, bounds
  <2> QED BY <1>5, <2>2, <2>3, <2>4
<1>6. ASSUME NEW p \in team, NEW tokens \in 1..MaxUsage, Answer(p, tokens) PROVE Untouched
  <2>1. p \in Procs /\ job[p] \in Shapes BY <1>0
  <2> QED BY <1>2, <1>6, <2>1 DEF Answer, Drop, Shapes, At, Holding, Counted, log, bounds
<1>7. ASSUME NEW p \in team, Raises(p) \/ Returns(p) PROVE Untouched
  BY <1>2, <1>7 DEF Raises, Returns, Idle, At, Holding, Counted, log, bounds
<1>8. ASSUME NEW p \in team, StoreResponse(p) PROVE Untouched
  <2>1. p \in Procs /\ job[p] \in Shapes BY <1>0
  <2> QED BY <1>2, <1>8, <2>1 DEF StoreResponse, Drop, Shapes, At, Holding, Counted, log, bounds
<1>9. ASSUME NEW p \in team, Crash(p) PROVE Untouched
  BY <1>0, <1>9 DEF Crash, Set, Idle, Holding, Counted, log, Untouched
<1> QED
  BY <1>1, <1>3, <1>4, <1>5, <1>6, <1>7, <1>8, <1>9

\* What the types say of what is counted.
LEMMA Numbers ==
  ASSUME TypeInv
  PROVE  /\ crashes \in Nat /\ team \subseteq Procs
         /\ ledger.calls \in Nat /\ ledger.tokens \in Nat /\ ledger.warned \subseteq Codes
         /\ entries.calls \in Nat /\ entries.tokens \in Nat
         /\ warnings \in [Codes -> Nat] /\ job \in [Procs -> Shapes]
         /\ \A q \in Procs :
              /\ job[q].mine.calls \in Nat /\ job[q].mine.tokens \in Nat
              /\ job[q].mine.warned \subseteq Codes /\ job[q].charge \in Nat
<1>1. /\ crashes \in Nat /\ team \subseteq Procs /\ job \in [Procs -> Shapes]
      /\ warnings \in [Codes -> Nat] /\ ledger \in Ledgers
      /\ entries.calls \in Nat /\ entries.tokens \in Nat
  BY BudgetAssumption DEF TypeInv, RestOK, JobsOK
<1>2. \A q \in Procs : job[q].mine \in Ledgers /\ job[q].charge \in 0..MaxUsage
  BY <1>1 DEF Shapes
<1>3. \A q \in Procs : job[q].charge \in Nat
  BY <1>2, BudgetAssumption
<1> QED
  BY <1>1, <1>2, <1>3 DEF Ledgers

\* A refused request holds the ledger that refused it, and writes it back as it was.
LEMMA RefusalStep ==
  ASSUME TypeInv, BudgetInv, team' = team, NEW p \in team, CheckFails(p) \/ Refuse(p)
  PROVE  BudgetInv'
<1>0. p \in Procs
  BY Numbers
<1>1. CASE CheckFails(p)
  <2>1. /\ job' = [job EXCEPT ![p] = [job[p] EXCEPT !.step = "refuse", !.mine = ledger]]
        /\ job[p].step = "check"
        /\ UNCHANGED <<team, ledger, entries, warnings, crashes>>
    BY <1>1 DEF CheckFails, Set, At, log, bounds
  <2>2. /\ job'[p].step = "refuse" /\ job'[p].mine = ledger
        /\ \A q \in Procs \ {p} : job'[q] = job[q]
    BY <1>0, <2>1, Numbers DEF Shapes
  <2>3. LedgersBehind'
    BY <2>1, <2>2 DEF BudgetInv, LedgersBehind
  <2>4. Told' = Told /\ \A l : Due(l)' = Due(l)
    BY <2>1 DEF Told, Due, Used, Limit
  <2>5. LedgersWarned'
    BY <2>1, <2>2, <2>4 DEF BudgetInv, LedgersWarned, Holding, Counted, Due, Used, Reached
  <2>6. AloneExact'
    <3>1. \A q \in Procs : Known(q)' = Known(q)
      BY <2>1, <2>2 DEF Known, Counted
    <3> QED BY <2>1, <2>2, <3>1 DEF BudgetInv, AloneExact, Counted
  <2> QED BY <2>3, <2>5, <2>6 DEF BudgetInv
<1>2. CASE Refuse(p)
  <2>1. /\ job[p].step = "refuse" /\ ledger' = job[p].mine
        /\ job'[p].step = "idle" /\ \A q \in Procs \ {p} : job'[q] = job[q]
        /\ UNCHANGED <<team, entries, warnings, crashes>>
    BY <1>0, <1>2, Numbers DEF Refuse, Set, At, Idle, log, bounds
  <2>2. LedgersBehind'
    BY <1>0, <2>1 DEF BudgetInv, LedgersBehind
  <2>3. Told' = Told /\ Due(ledger)' = Due(job[p].mine)
        /\ \A q \in Procs \ {p} : Due(job[q].mine)' = Due(job[q].mine)
    BY <2>1 DEF Told, Due, Used, Limit
  <2>4. LedgersWarned'
    BY <1>0, <2>1, <2>3 DEF BudgetInv, LedgersWarned, Holding, Counted, Used, Reached
  <2>5. AloneExact'
    <3> SUFFICES ASSUME team = {p} PROVE AloneExact'
      BY <1>0, <2>1 DEF AloneExact
    <3>1. job[p].mine.calls = ledger.calls /\ job[p].mine.warned = ledger.warned
      BY <1>0, <2>1 DEF BudgetInv, AloneExact
    <3>2. Known(p)' = ledger'.warned /\ Known(p) = ledger.warned
      BY <2>1 DEF Known, Counted
    <3>3. \A c \in Codes : warnings[c] <= crashes + (IF c \in ledger.warned THEN 1 ELSE 0)
      BY <1>0, <3>2 DEF BudgetInv, AloneExact
    <3>4. entries.calls <= ledger.calls + crashes + 0
      BY <1>0, <2>1 DEF BudgetInv, AloneExact
    <3> QED BY <1>0, <2>1, <3>1, <3>2, <3>3, <3>4, Numbers DEF AloneExact, Counted
  <2> QED BY <2>2, <2>4, <2>5 DEF BudgetInv
<1> QED
  BY <1>1, <1>2

\* An entry is counted from the ledger as it is read, and then logged.
LEMMA EntryStep ==
  ASSUME TypeInv, BudgetInv, team' = team, NEW p \in team, Load(p) \/ AppendEntry(p)
  PROVE  BudgetInv'
<1>0. p \in Procs
  BY Numbers
<1>1. CASE Load(p)
  <2>1. /\ job' = [job EXCEPT ![p] = [job[p] EXCEPT !.step = "entry",
                    !.mine = [ledger EXCEPT !.calls = @ + 1, !.tokens = @ + job[p].charge]]]
        /\ job[p].step = "load"
        /\ UNCHANGED <<team, ledger, entries, warnings, crashes>>
    BY <1>1 DEF Load, Set, At, log, bounds
  <2>2. /\ job'[p].step = "entry" /\ job'[p].charge = job[p].charge
        /\ job'[p].mine = [ledger EXCEPT !.calls = @ + 1, !.tokens = @ + job[p].charge]
        /\ \A q \in Procs \ {p} : job'[q] = job[q]
    BY <1>0, <2>1, Numbers DEF Shapes
  <2>3. /\ job'[p].mine.calls = ledger.calls + 1 /\ job'[p].mine.warned = ledger.warned
        /\ job'[p].mine.tokens = ledger.tokens + job[p].charge
    <3>1. ledger \in Ledgers BY DEF TypeInv, RestOK
    <3> QED BY <2>2, <3>1 DEF Ledgers
  <2>4. LedgersBehind'
    BY <1>0, <2>1, <2>2, <2>3, Numbers DEF BudgetInv, LedgersBehind
  <2>5. Told' = Told /\ Due(ledger)' = Due(ledger)
        /\ \A q \in Procs \ {p} : Due(job[q].mine)' = Due(job[q].mine)
    BY <2>1, <2>2 DEF Told, Due, Used, Limit
  <2>6. LedgersWarned'
    BY <2>1, <2>2, <2>3, <2>5 DEF BudgetInv, LedgersWarned, Holding, Counted, Used, Reached
  <2>7. AloneExact'
    BY <1>0, <2>1, <2>2, <2>3 DEF BudgetInv, AloneExact, Known, Counted
  <2> QED BY <2>4, <2>6, <2>7 DEF BudgetInv
<1>2. CASE AppendEntry(p)
  <2>1. /\ job[p].step = "entry" /\ job'[p].step = "warn" /\ job'[p].mine = job[p].mine
        /\ job'[p].charge = job[p].charge
        /\ \A q \in Procs \ {p} : job'[q] = job[q]
        /\ entries'.calls = entries.calls + 1 /\ entries'.tokens = entries.tokens + job[p].charge
        /\ UNCHANGED <<team, ledger, warnings, crashes>>
    BY <1>0, <1>2, Numbers DEF AppendEntry, Set, At, Shapes, bounds
  <2>2. LedgersBehind'
    BY <1>0, <2>1, Numbers DEF BudgetInv, LedgersBehind
  <2>3. Told' = Told /\ Due(ledger)' = Due(ledger)
        /\ \A q \in Procs : Due(job[q].mine)' = Due(job[q].mine)
    BY <2>1 DEF Told, Due, Used, Limit
  <2>4. \A c \in Told : Reached(entries, c)'
    <3> SUFFICES ASSUME NEW c \in Told PROVE Reached(entries', c)
      BY DEF Reached, Used, Limit
    <3>1. Reached(entries, c) /\ c \in Codes BY DEF BudgetInv, LedgersWarned, Told
    <3> QED BY <1>0, <2>1, <3>1, ReachedGrows, Numbers
  <2>5. LedgersWarned'
    BY <1>0, <2>1, <2>3, <2>4 DEF BudgetInv, LedgersWarned, Holding, Counted
  <2>6. AloneExact'
    <3> SUFFICES ASSUME team = {p} PROVE AloneExact'
      BY <1>0, <2>1 DEF AloneExact
    <3>1. Known(p)' = Known(p)
      BY <2>1 DEF Known, Counted
    <3>2. entries'.calls <= ledger.calls + crashes + 1
      BY <1>0, <2>1, Numbers DEF BudgetInv, AloneExact
    <3> QED BY <1>0, <2>1, <3>1, <3>2 DEF BudgetInv, AloneExact, Counted
  <2> QED BY <2>2, <2>5, <2>6 DEF BudgetInv
<1> QED
  BY <1>1, <1>2

\* A warning is of a threshold that the process's own ledger has reached.
LEMMA WarningStep ==
  ASSUME TypeInv, BudgetInv, team' = team, NEW p \in team, Warn(p) \/ Warned(p)
  PROVE  BudgetInv'
<1>0. p \in Procs
  BY Numbers
<1>1. CASE Warn(p)
  <2>0. PICK c \in Due(job[p].mine) \ job[p].mine.warned :
          /\ warnings' = [warnings EXCEPT ![c] = @ + 1]
          /\ Set(p, [job[p] EXCEPT !.mine.warned = @ \cup {c}])
    BY <1>1 DEF Warn
  <2>1. /\ c \in Codes /\ Reached(job[p].mine, c) /\ c \notin job[p].mine.warned
        /\ job[p].step = "warn"
        /\ UNCHANGED <<team, ledger, entries, crashes>>
    BY <1>1, <2>0, DueIsReached DEF Warn, At, bounds
  <2>2. /\ job'[p] = [job[p] EXCEPT !.mine = [job[p].mine EXCEPT !.warned = @ \cup {c}]]
        /\ \A q \in Procs \ {p} : job'[q] = job[q]
    BY <1>0, <2>0, Numbers DEF Set
  <2>3. /\ job'[p].step = "warn" /\ job'[p].mine.warned = job[p].mine.warned \cup {c}
        /\ job'[p].mine.calls = job[p].mine.calls /\ job'[p].mine.tokens = job[p].mine.tokens
        /\ job'[p].charge = job[p].charge
    <3>1. job[p] \in Shapes /\ job[p].mine \in Ledgers
      BY <1>0, Numbers DEF Shapes
    <3>2. /\ job'[p].step = "warn" /\ job'[p].charge = job[p].charge
          /\ job'[p].mine = [job[p].mine EXCEPT !.warned = @ \cup {c}]
      BY <2>1, <2>2, <3>1 DEF Shapes
    <3> QED BY <3>1, <3>2 DEF Ledgers
  <2>4. Told' = Told \cup {c} /\ Due(ledger)' = Due(ledger)
        /\ \A q \in Procs \ {p} : Due(job[q].mine)' = Due(job[q].mine)
    BY <2>0, <2>1, <2>2, Numbers DEF Told, Due, Used, Limit
  <2>5. LedgersBehind'
    BY <1>0, <2>1, <2>2, <2>3 DEF BudgetInv, LedgersBehind
  <2>6. Reached(entries, c)
    BY <1>0, <2>1, ReachedGrows, Numbers DEF BudgetInv, LedgersBehind
  <2>7. LedgersWarned'
    <3>1. \A d \in Told' : Reached(entries, d)'
      BY <2>1, <2>4, <2>6 DEF BudgetInv, LedgersWarned, Reached, Used, Limit
    <3> QED BY <1>0, <2>1, <2>2, <2>3, <2>4, <3>1 DEF BudgetInv, LedgersWarned, Holding, Counted
  <2>8. AloneExact'
    <3> SUFFICES ASSUME team = {p} PROVE AloneExact'
      BY <1>0, <2>1 DEF AloneExact
    <3>1. \A d \in Codes : warnings'[d] <= crashes + (IF d \in Known(p)' THEN 1 ELSE 0)
      <4> SUFFICES ASSUME NEW d \in Codes
                   PROVE  warnings'[d] <= crashes + (IF d \in job'[p].mine.warned THEN 1 ELSE 0)
        BY <2>3 DEF Known, Counted
      <4>1. warnings[d] <= crashes + (IF d \in job[p].mine.warned THEN 1 ELSE 0)
        BY <1>0, <2>1 DEF BudgetInv, AloneExact, Known, Counted
      <4>2. CASE d = c
        <5>1. warnings'[d] = warnings[d] + 1
          BY <2>0, <4>2, Numbers
        <5> QED BY <2>1, <2>3, <4>1, <4>2, <5>1, Numbers
      <4>3. CASE d # c
        <5>1. warnings'[d] = warnings[d]
          BY <2>0, <4>3, Numbers
        <5> QED BY <2>3, <4>1, <4>3, <5>1
      <4> QED BY <4>2, <4>3
    <3> QED BY <1>0, <2>1, <2>3, <3>1 DEF BudgetInv, AloneExact, Counted
  <2> QED BY <2>5, <2>7, <2>8 DEF BudgetInv
<1>2. CASE Warned(p)
  <2>1. /\ job[p].step = "warn" /\ Due(job[p].mine) \subseteq job[p].mine.warned
        /\ job'[p].step = "write" /\ job'[p].mine = job[p].mine
        /\ job'[p].charge = job[p].charge
        /\ \A q \in Procs \ {p} : job'[q] = job[q]
        /\ UNCHANGED <<team, ledger, entries, warnings, crashes>>
    BY <1>0, <1>2, Numbers DEF Warned, Set, At, Shapes, log, bounds
  <2>2. LedgersBehind'
    BY <1>0, <2>1 DEF BudgetInv, LedgersBehind
  <2>3. Told' = Told /\ Due(ledger)' = Due(ledger)
        /\ \A q \in Procs : Due(job[q].mine)' = Due(job[q].mine)
    BY <2>1 DEF Told, Due, Used, Limit
  <2>4. LedgersWarned'
    BY <1>0, <2>1, <2>3 DEF BudgetInv, LedgersWarned, Holding, Counted, Used, Reached
  <2>5. AloneExact'
    BY <1>0, <2>1 DEF BudgetInv, AloneExact, Known, Counted
  <2> QED BY <2>2, <2>4, <2>5 DEF BudgetInv
<1> QED
  BY <1>1, <1>2

\* The ledger that is written counts one entry more, and has warned of all it is due.
LEMMA LedgerStep ==
  ASSUME TypeInv, BudgetInv, team' = team, NEW p \in team, WriteLedger(p)
  PROVE  BudgetInv'
<1>0. p \in Procs
  BY Numbers
<1>1. /\ job[p].step = "write" /\ ledger' = job[p].mine
      /\ job'[p].step \in {"lookup", "store"} /\ \A q \in Procs \ {p} : job'[q] = job[q]
      /\ UNCHANGED <<team, entries, warnings, crashes>>
  <2>1. /\ job[p].step = "write" /\ ledger' = job[p].mine
        /\ job' = [job EXCEPT ![p] = [job[p] EXCEPT !.step = job[p].back]]
        /\ UNCHANGED <<team, entries, warnings, crashes>>
    BY DEF WriteLedger, WriteAs, Set, At, log, bounds
  <2>2. job[p].back \in {"lookup", "store"}
    BY <1>0, <2>1 DEF TypeInv, JobsOK, JobOK, Recording
  <2> QED BY <1>0, <2>1, <2>2, Numbers DEF Shapes
<1>2. LedgersBehind'
  BY <1>0, <1>1 DEF BudgetInv, LedgersBehind
<1>3. Told' = Told /\ Due(ledger)' = Due(job[p].mine)
      /\ \A q \in Procs \ {p} : Due(job[q].mine)' = Due(job[q].mine)
  BY <1>1 DEF Told, Due, Used, Limit
<1>4. LedgersWarned'
  BY <1>0, <1>1, <1>3 DEF BudgetInv, LedgersWarned, Holding, Counted, Used, Reached
<1>5. AloneExact'
  BY <1>0, <1>1, Numbers DEF BudgetInv, AloneExact, Known, Counted
<1> QED
  BY <1>2, <1>4, <1>5 DEF BudgetInv

\* What is written is what was counted and warned about, by all steps.
LEMMA BudgetHolds == Spec => []BudgetInv
<1>1. Init => BudgetInv
  <2> SUFFICES ASSUME Init PROVE BudgetInv OBVIOUS
  <2>1. Due(Empty) = {} /\ Told = {}
    BY BudgetAssumption DEF Init, Due, Used, Limit, Empty, Codes, Told
  <2>2. LedgersBehind /\ LedgersWarned
    BY <2>1 DEF Init, LedgersBehind, LedgersWarned, Empty, Idle, Holding, Counted
  <2>3. AloneExact
    BY DEF Init, AloneExact, Empty, Idle, Counted, Known
  <2> QED BY <2>2, <2>3 DEF BudgetInv
<1>2. TypeInv /\ BudgetInv /\ [Next]_vars => BudgetInv'
  <2> SUFFICES ASSUME TypeInv, BudgetInv, [Next]_vars PROVE BudgetInv'
    OBVIOUS
  <2>1. team' = team
    BY DEF Next, vars
  <2>2. CASE UNCHANGED vars \/ Tick
    BY <2>1, <2>2, OthersLeaveIt, UntouchedStep
  <2>3. ASSUME NEW p \in team, Step(p) PROVE BudgetInv'
    BY <2>1, <2>3, OthersLeaveIt, UntouchedStep, RefusalStep, EntryStep, WarningStep, LedgerStep DEF Step
  <2> QED BY <2>2, <2>3 DEF Next
<1> QED
  BY <1>1, <1>2, TypeCorrect, PTL DEF Spec

\* No warning before its threshold is reached, none left out once it is, whoever writes
\* over whose ledger; and from one process, one, and one more for each death.
THEOREM WarningsAreDue == Spec => []WarningsAreRight
<1>1. TypeInv /\ BudgetInv => WarningsAreRight
  <2> SUFFICES ASSUME TypeInv, BudgetInv, NEW c \in Codes
               PROVE  /\ warnings[c] > 0 => Reached(entries, c)
                      /\ Reached(ledger, c) => warnings[c] > 0
                      /\ Alone => warnings[c] <= 1 + crashes
    BY DEF WarningsAreRight
  <2>1. warnings[c] > 0 => Reached(entries, c)
    BY DEF BudgetInv, LedgersWarned, Told
  <2>2. Reached(ledger, c) => warnings[c] > 0
    BY DueIsReached DEF BudgetInv, LedgersWarned, Told
  <2>3. ASSUME Alone PROVE warnings[c] <= 1 + crashes
    <3>1. PICK p : team = {p}
      BY <2>3, FS_Subset, FS_Singleton, BudgetAssumption, Numbers DEF Alone
    <3>2. warnings[c] <= crashes + (IF c \in Known(p) THEN 1 ELSE 0)
      BY <3>1, Numbers DEF BudgetInv, AloneExact
    <3> QED BY <3>2, Numbers
  <2> QED BY <2>1, <2>2, <2>3
<1> QED
  BY <1>1, TypeCorrect, BudgetHolds, PTL

\* The ledger of one process lacks what it is about to write, and what died with it.
THEOREM LedgerIsExact == Spec => []LedgerFollowsEvents
<1>1. TypeInv /\ BudgetInv => LedgerFollowsEvents
  <2> SUFFICES ASSUME TypeInv, BudgetInv, Alone
               PROVE  /\ ledger.calls <= entries.calls
                      /\ entries.calls <= ledger.calls + crashes
                           + Cardinality({p \in Procs : job[p].step \in {"warn", "write"}})
    BY DEF LedgerFollowsEvents
  <2>1. PICK p : team = {p}
    BY FS_Subset, FS_Singleton, BudgetAssumption, Numbers DEF Alone
  <2>2. p \in Procs /\ \A q \in Procs \ {p} : job[q] = Idle
    BY <2>1, Numbers DEF TypeInv, OutsideIdle
  <2> DEFINE W == {q \in Procs : job[q].step \in {"warn", "write"}}
  <2>3. W = IF job[p].step \in {"warn", "write"} THEN {p} ELSE {}
    BY <2>2 DEF Idle
  <2>4. Cardinality(W) = IF job[p].step \in {"warn", "write"} THEN 1 ELSE 0
    BY <2>3, FS_Singleton, FS_EmptySet
  <2>5. entries.calls <= ledger.calls + crashes + (IF job[p].step \in {"warn", "write"} THEN 1 ELSE 0)
    BY <2>1, <2>2 DEF BudgetInv, AloneExact
  <2> QED BY <2>4, <2>5 DEF BudgetInv, LedgersBehind
<1> QED
  BY <1>1, TypeCorrect, BudgetHolds, PTL

-----------------------------------------------------------------------------
(* One request at a time.                                                  *)

OneByOne == MaxBatch = 1

\* A process has one request at most: it is looked up, missed, and from there on still
\* to do or done at every step.  Only a live process gets beyond its lookup.
SingleOK(p) ==
  LET j == job[p] IN
  /\ j.misses = <<>> \/ \E h \in Requests : j.misses = <<h>>
  /\ j.step = "lookup" =>
       j.todo = <<>> \/ (j.misses = <<>> /\ \E h \in Requests : j.todo = <<h>>)
  /\ j.step \in {"check", "ask", "store"} =>
       j.misses # <<>> /\ (j.todo = <<>> \/ j.todo = j.misses) /\ p \in Live
  /\ j.step \in Recording => j.todo = <<>>
  /\ j.step \in Recording /\ j.back = "lookup" => j.misses = <<>>
  /\ j.step \in Recording /\ j.back = "store" => j.misses # <<>> /\ p \in Live

Singles == \A p \in Procs : SingleOK(p)

\* How far a process is with a request that nothing stored answers: it wants an answer,
\* may ask for it, has it, has stored it but not charged it yet.
Phase(j) ==
  CASE \/ j.step = "lookup" /\ j.misses # <<>>
       \/ j.step = "check" /\ j.todo # <<>>                -> "wants"
    [] \/ j.step = "check" /\ j.todo = <<>>
       \/ j.step = "ask" /\ j.todo # <<>>                  -> "cleared"
    [] \/ j.step = "ask" /\ j.todo = <<>>
       \/ j.step = "store" /\ j.todo # <<>>                -> "has"
    [] j.step \in Recording /\ j.back = "store"            -> "stored"
    [] OTHER                                               -> "free"

\* What an answer costs that is not charged yet.
Owed(j) ==
  CASE Phase(j) = "has"    -> j.usage[1]
    [] Phase(j) = "stored" -> j.charge
    [] OTHER               -> 0

Dues == <<held, asked, spent, crashes>>

Moves(p, from, to) ==
  /\ Phase(job[p]) \in from /\ Phase(job'[p]) = to
  /\ to # "free" => job'[p].misses = job[p].misses

\* What a step may do to a request.
Stays(p) ==
  /\ Phase(job'[p]) = Phase(job[p]) /\ UNCHANGED Dues
  /\ Phase(job[p]) # "free" =>
       job'[p].misses = job[p].misses /\ Owed(job'[p]) = Owed(job[p])
  /\ ledger' # ledger =>
       /\ Phase(job[p]) = "free" /\ ledger' = job[p].mine
       /\ job[p].step \in {"write", "refuse"}
Misses(p) ==
  /\ Phase(job[p]) = "free" /\ Phase(job'[p]) = "wants" /\ UNCHANGED <<Dues, ledger>>
  /\ \E h \in Requests : job'[p].misses = <<h>> /\ held[h] = 0
Clears(p) ==
  Moves(p, {"wants"}, "cleared") /\ WithinBudget(ledger) /\ UNCHANGED <<Dues, ledger>>
Asks(p) ==
  /\ Moves(p, {"cleared"}, "has") /\ p \in Live /\ UNCHANGED <<held, ledger, crashes>>
  /\ \E h \in Requests : /\ job[p].misses = <<h>>
                         /\ asked' = [asked EXCEPT ![h] = @ + 1]
  /\ Owed(job'[p]) \in 1..MaxUsage
  /\ spent' = [calls |-> spent.calls + 1, tokens |-> spent.tokens + Owed(job'[p])]
Stores(p) ==
  /\ Moves(p, {"has"}, "stored") /\ Owed(job'[p]) = Owed(job[p])
  /\ UNCHANGED <<asked, spent, ledger, crashes>>
  /\ \E h \in Requests, k \in 1..MaxUsage :
       job[p].misses = <<h>> /\ held' = [held EXCEPT ![h] = k]
GivesUp(p) == Moves(p, {"wants", "cleared"}, "free") /\ UNCHANGED <<Dues, ledger>>
Charges(p) ==
  /\ Moves(p, {"stored"}, "free") /\ UNCHANGED Dues
  /\ job[p].step = "write" /\ ledger' = job[p].mine
DiesAt(p) ==
  /\ Phase(job'[p]) = "free" /\ crashes' = crashes + 1
  /\ UNCHANGED <<held, asked, spent, ledger>>

Move(p) ==
  \/ Stays(p) \/ Misses(p) \/ Clears(p) \/ Asks(p) \/ Stores(p) \/ GivesUp(p) \/ Charges(p)
  \/ DiesAt(p)

\* Only the process that takes a step changes.
Only(p) == \A q \in Procs \ {p} : job'[q] = job[q]

\* A sequence of one element,
LEMMA OneTail ==
  ASSUME NEW S, NEW h \in S
  PROVE  /\ Head(<<h>>) = h /\ Tail(<<h>>) = <<>> /\ <<h>> # <<>> /\ <<h>>[1] = h
         /\ Append(<<>>, h) = <<h>> /\ Len(<<h>>) = 1
OBVIOUS

\* and its head.
LEMMA HeadOfOne ==
  ASSUME NEW S, NEW s \in Seq(S), Len(s) = 1
  PROVE  Head(s) = s[1] /\ Head(s) \in S
<1>1. s # <<>> OBVIOUS
<1>2. Head(s) = s[1] OBVIOUS
<1> QED BY <1>1, <1>2, DropOK

\* A list of requests holds one.
LEMMA OneBatch ==
  ASSUME OneByOne, NEW hs \in Batches
  PROVE  \E h \in Requests : hs = <<h>>
<1>1. PICK n \in 1..MaxBatch : hs \in [1..n -> Requests] BY DEF Batches
<1>2. n = 1 /\ 1 \in 1..n /\ n \in Nat BY <1>1 DEF OneByOne
<1>3. hs[1] \in Requests BY <1>1, <1>2
<1>6. hs \in Seq(Requests) BY BatchesAre
<1>7. DOMAIN hs = 1..n /\ DOMAIN hs = 1..Len(hs) /\ Len(hs) \in Nat BY <1>1, <1>6
<1>8. Len(hs) = 1 BY <1>2, <1>7
<1>4. hs[1] \in Requests /\ hs \in Seq(Requests) /\ Len(hs) = 1 BY <1>3, <1>6, <1>8
<1>5. hs = <<hs[1]>> BY <1>4
<1> QED BY <1>4, <1>5

\* Looking up,
LEMMA LookupSingle ==
  ASSUME TypeInv, OneByOne, Singles, NEW p \in team, team' = team,
         \/ \E hs \in Batches : Start(p, hs)
         \/ CacheHit(p) \/ CacheMiss(p) \/ LookedUp(p)
  PROVE  Only(p) /\ SingleOK(p)' /\ Move(p)
<1> DEFINE j == job[p]
<1>0. p \in Procs /\ j \in Shapes /\ SingleOK(p) /\ job \in [Procs -> Shapes]
  BY DEF TypeInv, RestOK, JobsOK, Singles
<1>1. ASSUME NEW hs \in Batches, Start(p, hs) PROVE Only(p) /\ SingleOK(p)' /\ Move(p)
  <2>1. PICK h \in Requests : hs = <<h>> BY OneBatch
  <2>2. /\ job'[p] = [Idle EXCEPT !.step = "lookup", !.todo = <<h>>] /\ Only(p)
        /\ j.step = "idle" /\ UNCHANGED <<Dues, ledger>>
    BY <1>0, <1>1, <2>1 DEF Start, Set, Only, At, Dues, provider
  <2>3. job'[p].step = "lookup" /\ job'[p].misses = <<>> /\ job'[p].todo = <<h>>
    BY <2>2 DEF Idle
  <2>4. SingleOK(p)' BY <2>3 DEF SingleOK, Recording
  <2>5. Stays(p) BY <2>2, <2>3 DEF Stays, Phase, Recording
  <2> QED BY <2>2, <2>4, <2>5 DEF Move
<1>2. CASE CacheHit(p)
  <2>1. /\ job'[p] = [Drop(j) EXCEPT !.step = "load", !.charge = held[First(p)], !.back = "lookup"]
        /\ Only(p) /\ j.step = "lookup" /\ j.todo # <<>> /\ UNCHANGED <<Dues, ledger>>
    BY <1>0, <1>2 DEF CacheHit, Set, Only, At, More, Dues, provider, bounds
  <2>2. j.misses = <<>> /\ Tail(j.todo) = <<>> BY <1>0, <2>1, OneTail DEF SingleOK
  <2>3. /\ job'[p].step = "load" /\ job'[p].misses = <<>> /\ job'[p].todo = <<>>
        /\ job'[p].back = "lookup"
    BY <1>0, <2>1, <2>2 DEF Drop, Shapes
  <2>4. SingleOK(p)' BY <2>3 DEF SingleOK, Recording
  <2>5. Stays(p) BY <2>1, <2>2, <2>3 DEF Stays, Phase, Recording
  <2> QED BY <2>1, <2>4, <2>5 DEF Move
<1>3. CASE CacheMiss(p)
  <2>1. /\ job'[p] = [Drop(j) EXCEPT !.misses = Append(j.misses, First(p))]
        /\ Only(p) /\ j.step = "lookup" /\ j.todo # <<>> /\ UNCHANGED <<Dues, ledger>>
        /\ held[First(p)] = 0
    BY <1>0, <1>3 DEF CacheMiss, Set, Only, At, More, Dues, provider, bounds, Drop, Shapes
  <2>2. PICK h \in Requests : j.misses = <<>> /\ j.todo = <<h>> BY <1>0, <2>1 DEF SingleOK
  <2>3. First(p) = h /\ Tail(j.todo) = <<>> /\ Append(j.misses, First(p)) = <<h>>
    BY <2>2, OneTail DEF First
  <2>4. job'[p].step = "lookup" /\ job'[p].misses = <<h>> /\ job'[p].todo = <<>>
    BY <1>0, <2>1, <2>3 DEF Drop, Shapes
  <2>5. SingleOK(p)' BY <2>4 DEF SingleOK, Recording
  <2>6. Misses(p) BY <2>1, <2>2, <2>3, <2>4 DEF Misses, Phase, Recording
  <2> QED BY <2>1, <2>5, <2>6 DEF Move
<1>4. CASE LookedUp(p)
  <2>1. /\ Only(p) /\ j.step = "lookup" /\ j.todo = <<>> /\ UNCHANGED <<Dues, ledger>>
        /\ job'[p] = IF j.misses = <<>> \/ p \notin Live THEN Idle ELSE Then(j, "check")
    BY <1>0, <1>4 DEF LookedUp, Set, Only, At, More, Dues, provider, bounds
  <2>2. CASE j.misses = <<>> \/ p \notin Live
    <3>1. job'[p].step = "idle" /\ job'[p].misses = <<>> BY <2>1, <2>2 DEF Idle
    <3>2. SingleOK(p)' BY <3>1 DEF SingleOK, Recording
    <3>3. Stays(p) \/ GivesUp(p)
      BY <2>1, <3>1 DEF Stays, GivesUp, Moves, Phase, Recording
    <3> QED BY <2>1, <3>2, <3>3 DEF Move
  <2>3. CASE ~ (j.misses = <<>> \/ p \notin Live)
    <3>1. job'[p].step = "check" /\ job'[p].misses = j.misses /\ job'[p].todo = j.misses
      BY <1>0, <2>1, <2>3 DEF Then, Shapes
    <3>2. SingleOK(p)' BY <1>0, <2>3, <3>1 DEF SingleOK, Recording
    <3>3. Stays(p) BY <2>1, <2>3, <3>1 DEF Stays, Phase, Owed, Recording
    <3> QED BY <2>1, <3>2, <3>3 DEF Move
  <2> QED BY <2>2, <2>3
<1> QED BY <1>1, <1>2, <1>3, <1>4

\* checking and asking,
LEMMA AskSingle ==
  ASSUME TypeInv, Singles, NEW p \in team, team' = team,
         \/ CheckPasses(p) \/ CheckFails(p) \/ Checked(p)
         \/ \E tokens \in 1..MaxUsage : Answer(p, tokens)
         \/ Answered(p) \/ Raises(p)
  PROVE  Only(p) /\ SingleOK(p)' /\ Move(p)
<1> DEFINE j == job[p]
<1>0. /\ p \in Procs /\ j \in Shapes /\ SingleOK(p) /\ job \in [Procs -> Shapes] /\ JobOK(j)
      /\ ledger \in Ledgers
  BY DEF TypeInv, RestOK, JobsOK, Singles
<1>1. CASE CheckPasses(p)
  <2>1. /\ job'[p] = Drop(j) /\ Only(p) /\ j.step = "check" /\ j.todo # <<>>
        /\ UNCHANGED <<Dues, ledger>> /\ WithinBudget(ledger)
    BY <1>0, <1>1 DEF CheckPasses, Set, Only, At, More, Dues, bounds
  <2>2. PICK h \in Requests : j.misses = <<h>> /\ j.todo = <<h>>
    BY <1>0, <2>1 DEF SingleOK
  <2>3. /\ job'[p].step = "check" /\ job'[p].misses = j.misses /\ job'[p].todo = <<>>
    BY <1>0, <2>1, <2>2, OneTail DEF Drop, Shapes
  <2>6. j.misses # <<>> /\ p \in Live BY <1>0, <2>1 DEF SingleOK
  <2>4. SingleOK(p)' BY <2>2, <2>3, <2>6 DEF SingleOK, Recording
  <2>5. Clears(p) BY <2>1, <2>3 DEF Clears, Moves, Phase, Recording
  <2> QED BY <2>1, <2>4, <2>5 DEF Move
<1>2. CASE CheckFails(p)
  <2>1. /\ job'[p] = [j EXCEPT !.step = "refuse", !.mine = ledger] /\ Only(p)
        /\ j.step = "check" /\ j.todo # <<>> /\ UNCHANGED <<Dues, ledger>>
    BY <1>0, <1>2 DEF CheckFails, Set, Only, At, More, Dues, provider, bounds
  <2>2. job'[p].step = "refuse" /\ job'[p].misses = j.misses BY <1>0, <2>1 DEF Shapes
  <2>3. SingleOK(p)' BY <1>0, <2>2 DEF SingleOK, Recording
  <2>4. GivesUp(p) BY <2>1, <2>2 DEF GivesUp, Moves, Phase, Recording
  <2> QED BY <2>1, <2>3, <2>4 DEF Move
<1>3. CASE Checked(p)
  <2>1. /\ job'[p] = Then(j, "ask") /\ Only(p) /\ j.step = "check" /\ j.todo = <<>>
        /\ UNCHANGED <<Dues, ledger>>
    BY <1>0, <1>3 DEF Checked, Set, Only, At, More, Dues, provider, bounds
  <2>2. job'[p].step = "ask" /\ job'[p].misses = j.misses /\ job'[p].todo = j.misses
    BY <1>0, <2>1 DEF Then, Shapes
  <2>3. j.misses # <<>> /\ p \in Live /\ \E h \in Requests : j.misses = <<h>>
    BY <1>0, <2>1 DEF SingleOK
  <2>4. SingleOK(p)' BY <2>2, <2>3 DEF SingleOK, Recording
  <2>5. Stays(p) BY <2>1, <2>2, <2>3 DEF Stays, Phase, Owed, Recording
  <2> QED BY <2>1, <2>4, <2>5 DEF Move
<1>4. ASSUME NEW tokens \in 1..MaxUsage, Answer(p, tokens)
      PROVE  Only(p) /\ SingleOK(p)' /\ Move(p)
  <2>1. /\ job'[p] = [Drop(j) EXCEPT !.usage = Append(j.usage, tokens)]
        /\ Only(p) /\ j.step = "ask" /\ j.todo # <<>> /\ UNCHANGED <<held, ledger, crashes>>
        /\ asked' = [asked EXCEPT ![First(p)] = @ + 1]
        /\ spent' = [calls |-> spent.calls + 1, tokens |-> spent.tokens + tokens]
    BY <1>0, <1>4 DEF Answer, Set, Only, At, More, bounds, Drop, Shapes
  <2>2. PICK h \in Requests : j.misses = <<h>> /\ j.todo = <<h>> /\ p \in Live
    BY <1>0, <2>1 DEF SingleOK
  <2>3. First(p) = h /\ Tail(j.todo) = <<>> BY <2>2, OneTail DEF First
  <2>4. j.usage = <<>>
    <3>1. Len(j.usage) + Len(j.todo) = Len(j.misses) BY <1>0, <2>1 DEF JobOK
    <3>2. j.usage \in Seq(1..MaxUsage) /\ Len(j.misses) = 1 /\ Len(j.todo) = 1
      BY <1>0, <2>2 DEF Shapes
    <3>3. Len(j.usage) \in Nat BY <3>2
    <3>4. Len(j.usage) = 0 BY <3>1, <3>2, <3>3
    <3> QED BY <3>2, <3>4
  <2>5. Append(j.usage, tokens)[1] = tokens BY <2>4
  <2>6. /\ job'[p].step = "ask" /\ job'[p].misses = j.misses /\ job'[p].todo = <<>>
        /\ job'[p].usage = Append(j.usage, tokens)
    BY <1>0, <2>1, <2>3 DEF Drop, Shapes
  <2>7. SingleOK(p)' BY <2>2, <2>6, OneTail DEF SingleOK, Recording
  <2>10. Phase(j) = "cleared" /\ Phase(job'[p]) = "has" BY <2>1, <2>6 DEF Phase, Recording
  <2>11. Owed(job'[p]) = tokens BY <2>5, <2>6, <2>10 DEF Owed
  <2>8. Phase(j) = "cleared" /\ Phase(job'[p]) = "has" /\ Owed(job'[p]) = tokens
    BY <2>10, <2>11
  <2>9. Asks(p) BY <2>1, <2>2, <2>3, <2>6, <2>8 DEF Asks, Moves
  <2> QED BY <2>1, <2>7, <2>9 DEF Move
<1>5. CASE Answered(p)
  <2>1. /\ job'[p] = Then(j, "store") /\ Only(p) /\ j.step = "ask" /\ j.todo = <<>>
        /\ UNCHANGED <<Dues, ledger>>
    BY <1>0, <1>5 DEF Answered, Set, Only, At, More, Dues, provider, bounds
  <2>2. /\ job'[p].step = "store" /\ job'[p].misses = j.misses /\ job'[p].todo = j.misses
        /\ job'[p].usage = j.usage
    BY <1>0, <2>1 DEF Then, Shapes
  <2>3. j.misses # <<>> /\ p \in Live /\ \E h \in Requests : j.misses = <<h>>
    BY <1>0, <2>1 DEF SingleOK
  <2>4. SingleOK(p)' BY <2>2, <2>3 DEF SingleOK, Recording
  <2>5. Stays(p) BY <2>1, <2>2, <2>3 DEF Stays, Phase, Owed, Recording
  <2> QED BY <2>1, <2>4, <2>5 DEF Move
<1>6. CASE Raises(p)
  <2>1. /\ job'[p] = Idle /\ Only(p) /\ UNCHANGED <<Dues, ledger>>
        /\ \/ j.step = "check" /\ j.todo # j.misses
           \/ j.step = "ask" /\ (j.todo # <<>> \/ Len(j.misses) > 1)
    BY <1>0, <1>6 DEF Raises, Set, Only, At, More, Dues, provider, bounds
  <2>2. PICK h \in Requests : j.misses = <<h>> /\ (j.todo = <<>> \/ j.todo = <<h>>)
    BY <1>0, <2>1 DEF SingleOK
  <2>3. Len(j.misses) = 1 BY <2>2, OneTail
  <2>4. Phase(j) \in {"wants", "cleared"}
    <3>1. CASE j.step = "check" BY <3>1 DEF Phase, Recording
    <3>2. CASE j.step = "ask" /\ j.todo # <<>> BY <3>2 DEF Phase, Recording
    <3> QED BY <2>1, <2>3, <3>1, <3>2
  <2>5. job'[p].step = "idle" /\ job'[p].misses = <<>> BY <2>1 DEF Idle
  <2>6. SingleOK(p)' BY <2>5 DEF SingleOK, Recording
  <2>7. GivesUp(p) BY <2>1, <2>4, <2>5 DEF GivesUp, Moves, Phase, Recording
  <2> QED BY <2>1, <2>6, <2>7 DEF Move
<1> QED BY <1>1, <1>2, <1>3, <1>4, <1>5, <1>6

\* storing and recording: each is one of the moves.
LEMMA RecordSingle ==
  ASSUME TypeInv, Singles, NEW p \in team, team' = team,
         \/ Refuse(p) \/ StoreResponse(p) \/ Returns(p) \/ Crash(p)
         \/ Load(p) \/ AppendEntry(p) \/ Warn(p) \/ Warned(p) \/ WriteLedger(p)
  PROVE  Only(p) /\ SingleOK(p)' /\ Move(p)
<1> DEFINE j == job[p]
<1>0. /\ p \in Procs /\ j \in Shapes /\ SingleOK(p) /\ job \in [Procs -> Shapes] /\ JobOK(j)
  BY DEF TypeInv, RestOK, JobsOK, Singles
<1>1. ASSUME job'[p] = Idle PROVE SingleOK(p)' /\ Phase(job'[p]) = "free"
  BY <1>1 DEF Idle, SingleOK, Phase, Recording
<1>2. CASE Refuse(p)
  <2>1. /\ job'[p] = Idle /\ Only(p) /\ j.step = "refuse" /\ UNCHANGED Dues
        /\ ledger' = j.mine
    BY <1>0, <1>2 DEF Refuse, Set, Only, At, Dues, provider, bounds
  <2>2. Stays(p) BY <1>1, <2>1 DEF Stays, Phase, Recording
  <2> QED BY <1>1, <2>1, <2>2 DEF Move
<1>3. CASE StoreResponse(p)
  <2>1. /\ job'[p] = [Drop(j) EXCEPT !.step = "load", !.back = "store",
                                     !.charge = Head(j.usage), !.usage = Tail(j.usage)]
        /\ held' = [held EXCEPT ![First(p)] = Head(j.usage)]
        /\ Only(p) /\ j.step = "store" /\ j.todo # <<>>
        /\ UNCHANGED <<asked, spent, ledger, crashes>>
    BY <1>0, <1>3 DEF StoreResponse, Set, Only, At, More, provider, bounds, Drop, Shapes
  <2>2. PICK h \in Requests : j.misses = <<h>> /\ j.todo = <<h>> /\ p \in Live
    BY <1>0, <2>1 DEF SingleOK
  <2>3. First(p) = h /\ Tail(j.todo) = <<>> BY <2>2, OneTail DEF First
  <2>10. Len(j.todo) = 1 BY <2>2, OneTail
  <2>11. j.usage \in Seq(1..MaxUsage) /\ Len(j.usage) = Len(j.todo)
    BY <1>0, <2>1 DEF JobOK, Shapes
  <2>4. j.usage \in Seq(1..MaxUsage) /\ Len(j.usage) = 1 BY <2>10, <2>11
  <2>5. Head(j.usage) = j.usage[1] /\ Head(j.usage) \in 1..MaxUsage BY <2>4, HeadOfOne
  <2>6. /\ job'[p].step = "load" /\ job'[p].back = "store" /\ job'[p].misses = j.misses
        /\ job'[p].todo = <<>> /\ job'[p].charge = Head(j.usage)
    BY <1>0, <2>1, <2>3 DEF Drop, Shapes
  <2>7. SingleOK(p)' BY <2>2, <2>6 DEF SingleOK, Recording
  <2>8. /\ Phase(j) = "has" /\ Phase(job'[p]) = "stored"
        /\ Owed(j) = j.usage[1] /\ Owed(job'[p]) = Head(j.usage)
    BY <2>1, <2>6 DEF Phase, Owed, Recording
  <2>12. Moves(p, {"has"}, "stored") BY <2>6, <2>8 DEF Moves
  <2>13. held' = [held EXCEPT ![h] = Head(j.usage)] BY <2>1, <2>3
  <2>9. Stores(p) BY <2>1, <2>2, <2>5, <2>8, <2>12, <2>13 DEF Stores
  <2> QED BY <2>1, <2>7, <2>9 DEF Move
<1>4. CASE Returns(p)
  <2>1. /\ job'[p] = Idle /\ Only(p) /\ j.step = "store" /\ j.todo = <<>>
        /\ UNCHANGED <<Dues, ledger>>
    BY <1>0, <1>4 DEF Returns, Set, Only, At, More, Dues, provider, bounds
  <2>2. Stays(p) BY <1>1, <2>1 DEF Stays, Phase, Recording
  <2> QED BY <1>1, <2>1, <2>2 DEF Move
<1>5. CASE Crash(p)
  <2>1. /\ job'[p] = Idle /\ Only(p) /\ crashes' = crashes + 1
        /\ UNCHANGED <<held, asked, spent, ledger>>
    BY <1>0, <1>5 DEF Crash, Set, Only, provider
  <2>2. DiesAt(p) BY <1>1, <2>1 DEF DiesAt
  <2> QED BY <1>1, <2>1, <2>2 DEF Move
\* A step from one point of the record to the next.
<1>6. ASSUME j.step \in Recording, job'[p].step \in Recording, Only(p),
             job'[p].todo = j.todo, job'[p].misses = j.misses,
             job'[p].back = j.back, job'[p].charge = j.charge,
             UNCHANGED <<Dues, ledger>>
      PROVE  Only(p) /\ SingleOK(p)' /\ Move(p)
  <2>1. SingleOK(p)' BY <1>0, <1>6 DEF SingleOK, Recording
  <2>2. Phase(job'[p]) = Phase(j) /\ Owed(job'[p]) = Owed(j)
    BY <1>6 DEF Phase, Owed, Recording
  <2>3. Stays(p) BY <1>6, <2>2 DEF Stays
  <2> QED BY <1>6, <2>1, <2>3 DEF Move
<1>7. CASE Load(p)
  <2>1. /\ job' = [job EXCEPT ![p] = [j EXCEPT !.step = "entry",
             !.mine = [ledger EXCEPT !.calls = @ + 1, !.tokens = @ + j.charge]]]
        /\ j.step = "load" /\ UNCHANGED <<Dues, ledger>>
    BY <1>7 DEF Load, Set, At, Dues, provider, bounds
  <2> QED BY <1>0, <1>6, <2>1 DEF Only, Shapes, Recording
<1>8. CASE AppendEntry(p)
  <2>1. /\ job' = [job EXCEPT ![p] = [j EXCEPT !.step = "warn"]]
        /\ j.step = "entry" /\ UNCHANGED <<Dues, ledger>>
    BY <1>8 DEF AppendEntry, Set, At, Dues, provider, bounds
  <2> QED BY <1>0, <1>6, <2>1 DEF Only, Shapes, Recording
<1>9. CASE Warn(p)
  <2>1. PICK c : Set(p, [j EXCEPT !.mine.warned = @ \cup {c}]) BY <1>9 DEF Warn
  <2>2. /\ job' = [job EXCEPT ![p] = [j EXCEPT !.mine = [j.mine EXCEPT !.warned = @ \cup {c}]]]
        /\ j.step = "warn" /\ UNCHANGED <<Dues, ledger>>
    BY <1>0, <1>9, <2>1 DEF Warn, Set, At, Dues, provider, bounds
  <2> QED BY <1>0, <1>6, <2>2 DEF Only, Shapes, Recording
<1>10. CASE Warned(p)
  <2>1. /\ job' = [job EXCEPT ![p] = [j EXCEPT !.step = "write"]]
        /\ j.step = "warn" /\ UNCHANGED <<Dues, ledger>>
    BY <1>10 DEF Warned, Set, At, Dues, provider, bounds
  <2> QED BY <1>0, <1>6, <2>1 DEF Only, Shapes, Recording
<1>11. CASE WriteLedger(p)
  <2>1. /\ job'[p] = [j EXCEPT !.step = j.back] /\ Only(p)
        /\ j.step = "write" /\ ledger' = j.mine /\ UNCHANGED Dues
    BY <1>0, <1>11 DEF WriteLedger, WriteAs, Set, Only, At, Dues, provider, bounds
  <2>2. j.back \in {"lookup", "store"} /\ j.todo = <<>>
    BY <1>0, <2>1 DEF JobOK, SingleOK, Recording
  <2>3. job'[p].step = j.back /\ job'[p].todo = <<>> /\ job'[p].misses = j.misses
    BY <1>0, <2>1, <2>2 DEF Shapes
  <2>4. CASE j.back = "lookup"
    <3>1. j.misses = <<>> BY <1>0, <2>1, <2>4 DEF SingleOK, Recording
    <3>2. SingleOK(p)' BY <2>3, <2>4, <3>1 DEF SingleOK, Recording
    <3>3. Stays(p) BY <2>1, <2>3, <2>4, <3>1 DEF Stays, Phase, Recording
    <3> QED BY <2>1, <3>2, <3>3 DEF Move
  <2>5. CASE j.back = "store"
    <3>1. j.misses # <<>> /\ p \in Live BY <1>0, <2>1, <2>5 DEF SingleOK, Recording
    <3>2. SingleOK(p)' BY <1>0, <2>3, <2>5, <3>1 DEF SingleOK, Recording
    <3>3. Charges(p) BY <2>1, <2>3, <2>5, <3>1 DEF Charges, Moves, Phase, Recording
    <3> QED BY <2>1, <3>2, <3>3 DEF Move
  <2> QED BY <2>2, <2>4, <2>5
<1> QED BY <1>2, <1>3, <1>4, <1>5, <1>7, <1>8, <1>9, <1>10, <1>11

\* Every step is one of the moves, by one process, or touches none of this.
LEMMA EachMoves ==
  ASSUME TypeInv, OneByOne, Singles, Next
  PROVE  /\ Singles' /\ team' = team
         /\ UNCHANGED <<job, ledger, Dues>> \/ \E p \in team : Only(p) /\ Move(p)
<1>1. team' = team BY DEF Next
<1>2. CASE Tick
  BY <1>1, <1>2 DEF Tick, Dues, provider, Singles, SingleOK
<1>3. ASSUME NEW p \in team, Step(p) PROVE Singles' /\ Only(p) /\ Move(p)
  <2>1. Only(p) /\ SingleOK(p)' /\ Move(p)
    BY <1>1, <1>3, LookupSingle, AskSingle, RecordSingle DEF Step
  <2>2. \A q \in Procs \ {p} : SingleOK(q)' BY <2>1 DEF Only, Singles, SingleOK
  <2> QED BY <2>1, <2>2 DEF Singles
<1> QED BY <1>1, <1>2, <1>3 DEF Next

\* A process has one request at a time.
LEMMA OneRequestEach == ASSUME OneByOne PROVE Spec => []Singles
<1>1. Init => Singles
  BY DEF Init, Singles, SingleOK, Idle, Recording
<1>2. TypeInv /\ Singles /\ [Next]_vars => Singles'
  <2>1. ASSUME UNCHANGED vars, Singles PROVE Singles'
    BY <2>1 DEF vars, Singles, SingleOK
  <2> QED BY <2>1, EachMoves
<1> QED BY <1>1, <1>2, TypeCorrect, PTL DEF Spec

-----------------------------------------------------------------------------
(* Who pays for a request.                                                 *)

Payers == Live \cap team

With(h, phases) == {p \in Payers : job[p].misses = <<h>> /\ Phase(job[p]) \in phases}
Wanting(h) == With(h, {"wants", "cleared"})
Having(h)  == With(h, {"has"})

\* As long as no response is stored, each answer is at a process or died with it.  And
\* every process that still wants one accounts for an answer that is yet to come.
Shared(h) ==
  /\ held[h] = 0 => asked[h] <= crashes + Cardinality(Having(h))
  /\ asked[h] + Cardinality(Wanting(h)) <= Cardinality(Payers) + crashes

\* A set that gains or loses one element.
LEMMA OneMore ==
  ASSUME NEW S, NEW T, NEW x, IsFiniteSet(S), T \ {x} = S \ {x}
  PROVE  /\ IsFiniteSet(T) /\ Cardinality(S) \in Nat /\ Cardinality(T) \in Nat
         /\ x \in T /\ x \notin S => Cardinality(T) = Cardinality(S) + 1
         /\ x \notin T /\ x \in S => Cardinality(S) = Cardinality(T) + 1
         /\ (x \in T <=> x \in S) => T = S
<1>1. IsFiniteSet(S \ {x}) BY FS_RemoveElement
<1>2. T = S \ {x} \/ T = (S \ {x}) \cup {x} OBVIOUS
<1>3. IsFiniteSet(T) BY <1>1, <1>2, FS_AddElement
<1>4. Cardinality(S) \in Nat /\ Cardinality(T) \in Nat BY <1>3, FS_CardinalityType
<1>5. ASSUME x \in T, x \notin S PROVE Cardinality(T) = Cardinality(S) + 1
  <2>1. T = S \cup {x} BY <1>5
  <2> QED BY <1>5, <2>1, FS_AddElement
<1>6. ASSUME x \notin T, x \in S PROVE Cardinality(S) = Cardinality(T) + 1
  <2>1. S = T \cup {x} BY <1>6
  <2> QED BY <1>3, <1>6, <2>1, FS_AddElement
<1>7. ASSUME x \in T <=> x \in S PROVE T = S BY <1>7
<1> QED BY <1>3, <1>4, <1>5, <1>6, <1>7

\* Two groups of processes without a common member.
LEMMA Apart ==
  ASSUME NEW P, IsFiniteSet(P), NEW S \in SUBSET P, NEW T \in SUBSET P, S \cap T = {}
  PROVE  Cardinality(S) + Cardinality(T) <= Cardinality(P)
<1>1. IsFiniteSet(S) /\ IsFiniteSet(T) /\ IsFiniteSet(S \cup T)
      /\ Cardinality(S \cup T) <= Cardinality(P)
  BY FS_Subset
<1>2. Cardinality(S) \in Nat /\ Cardinality(T) \in Nat /\ Cardinality(S \cap T) = 0
  BY <1>1, FS_CardinalityType, FS_EmptySet
<1>3. Cardinality(S \cup T) = Cardinality(S) + Cardinality(T)
  BY <1>1, <1>2, FS_Union
<1> QED BY <1>1, <1>3

\* However a process moves, it accounts for what it pays.
LEMMA SharedStep ==
  ASSUME TypeInv, NEW p \in team, team' = team, Only(p), Move(p), NEW h \in Requests, Shared(h)
  PROVE  Shared(h)'
<1> DEFINE W  == Wanting(h)
           W2 == Wanting(h)'
           H  == Having(h)
           H2 == Having(h)'
           In(q, phases) == q \in Payers /\ job[q].misses = <<h>> /\ Phase(job[q]) \in phases
<1>1. /\ p \in Procs /\ Payers' = Payers /\ Payers \subseteq Procs /\ IsFiniteSet(Payers)
      /\ W \subseteq Payers /\ H \subseteq Payers /\ IsFiniteSet(W) /\ IsFiniteSet(H)
      /\ W \cap H = {}
  <2>1. Payers' = Payers /\ Payers \subseteq Procs BY BudgetAssumption DEF Payers, TypeInv, RestOK
  <2>2. IsFiniteSet(Payers) BY <2>1, FS_Subset, BudgetAssumption
  <2>3. W \subseteq Payers /\ H \subseteq Payers /\ W \cap H = {}
    BY DEF Wanting, Having, With
  <2> QED BY <2>1, <2>2, <2>3, FS_Subset DEF TypeInv, RestOK
<1>2. /\ p \in W <=> In(p, {"wants", "cleared"})
      /\ p \in W2 <=> In(p, {"wants", "cleared"})'
      /\ p \in H <=> In(p, {"has"})
      /\ p \in H2 <=> In(p, {"has"})'
  BY <1>1 DEF Wanting, Having, With
<1>3. W2 \ {p} = W \ {p} /\ H2 \ {p} = H \ {p}
  BY <1>1 DEF Wanting, Having, With, Only
<1>4. /\ Cardinality(Payers) \in Nat /\ crashes \in Nat /\ asked[h] \in Nat
      /\ Cardinality(W) \in Nat /\ Cardinality(H) \in Nat
      /\ Cardinality(W2) \in Nat /\ Cardinality(H2) \in Nat
  <2>1. crashes \in Nat /\ asked[h] \in Nat BY BudgetAssumption DEF TypeInv, RestOK
  <2>2. Cardinality(Payers) \in Nat BY <1>1, FS_CardinalityType
  <2>3. Cardinality(W) \in Nat /\ Cardinality(W2) \in Nat BY <1>1, <1>3, OneMore
  <2>4. Cardinality(H) \in Nat /\ Cardinality(H2) \in Nat BY <1>1, <1>3, OneMore
  <2> QED BY <2>1, <2>2, <2>3, <2>4
<1>5. /\ held[h] = 0 => asked[h] <= crashes + Cardinality(H)
      /\ asked[h] + Cardinality(W) <= Cardinality(Payers) + crashes
  BY DEF Shared
<1>6. SUFFICES /\ held'[h] = 0 => asked'[h] <= crashes' + Cardinality(H2)
               /\ asked'[h] + Cardinality(W2) <= Cardinality(Payers) + crashes'
  BY <1>1 DEF Shared
<1>7. /\ p \in W2 /\ p \notin W => Cardinality(W2) = Cardinality(W) + 1
      /\ p \notin W2 /\ p \in W => Cardinality(W) = Cardinality(W2) + 1
      /\ (p \in W2 <=> p \in W) => W2 = W
      /\ p \in H2 /\ p \notin H => Cardinality(H2) = Cardinality(H) + 1
      /\ p \notin H2 /\ p \in H => Cardinality(H) = Cardinality(H2) + 1
      /\ (p \in H2 <=> p \in H) => H2 = H
  BY <1>1, <1>3, OneMore
<1> HIDE DEF W, W2, H, H2
<1>10. CASE Stays(p)
  <2>1. (p \in W2 <=> p \in W) /\ (p \in H2 <=> p \in H)
    BY <1>1, <1>2, <1>10 DEF Stays
  <2> QED BY <1>5, <1>7, <1>10, <2>1 DEF Stays, Dues
<1>11. CASE Misses(p)
  <2>1. p \notin W /\ p \notin H /\ p \notin H2
    BY <1>2, <1>11 DEF Misses
  <2>2. PICK g \in Requests : job'[p].misses = <<g>> /\ held[g] = 0
    BY <1>11 DEF Misses
  <2>3. CASE g = h
    <3>1. H2 = H /\ asked[h] <= crashes + Cardinality(H)
      BY <1>5, <1>7, <2>1, <2>2, <2>3
    <3>2. Cardinality(W2) + Cardinality(H) <= Cardinality(Payers)
      <4>1. W2 \subseteq Payers /\ W2 \cap H = {}
        BY <1>1, <1>3, <2>1 DEF W2, Wanting, With
      <4> QED BY <1>1, <4>1, Apart
    <3> QED BY <1>4, <1>11, <3>1, <3>2 DEF Misses, Dues
  <2>4. CASE g # h
    <3>1. p \notin W2 BY <1>2, <2>2, <2>4
    <3> QED BY <1>5, <1>7, <1>11, <2>1, <3>1 DEF Misses, Dues
  <2> QED BY <2>3, <2>4
<1>12. CASE Clears(p)
  <2>1. (p \in W2 <=> p \in W) /\ p \notin H2 /\ p \notin H
    BY <1>1, <1>2, <1>12 DEF Clears, Moves
  <2> QED BY <1>5, <1>7, <1>12, <2>1 DEF Clears, Dues
<1>13. CASE Asks(p)
  <2>1. PICK g \in Requests : job[p].misses = <<g>> /\ asked' = [asked EXCEPT ![g] = @ + 1]
    BY <1>13 DEF Asks
  <2>2. p \in Payers /\ job'[p].misses = <<g>>
    BY <1>13, <2>1 DEF Asks, Moves, Payers
  <2>3. CASE g = h
    <3>1. p \in W /\ p \notin W2 /\ p \notin H /\ p \in H2
      BY <1>1, <1>2, <1>13, <2>1, <2>2, <2>3 DEF Asks, Moves
    <3>2. asked'[h] = asked[h] + 1 BY <2>1, <2>3 DEF TypeInv, RestOK
    <3> QED BY <1>4, <1>5, <1>7, <1>13, <3>1, <3>2 DEF Asks
  <2>4. CASE g # h
    <3>1. p \notin W /\ p \notin W2 /\ p \notin H /\ p \notin H2
      BY <1>2, <2>1, <2>2, <2>4
    <3>2. asked'[h] = asked[h] BY <2>1, <2>4 DEF TypeInv, RestOK
    <3> QED BY <1>5, <1>7, <1>13, <3>1, <3>2 DEF Asks
  <2> QED BY <2>3, <2>4
<1>14. CASE Stores(p)
  <2>1. PICK g \in Requests, k \in 1..MaxUsage :
          job[p].misses = <<g>> /\ held' = [held EXCEPT ![g] = k]
    BY <1>14 DEF Stores
  <2>2. p \notin W /\ p \notin W2 /\ p \notin H2
    BY <1>2, <1>14 DEF Stores, Moves
  <2>3. CASE g = h
    <3>1. held'[h] # 0 BY <2>1, <2>3, BudgetAssumption DEF TypeInv, RestOK
    <3> QED BY <1>5, <1>7, <1>14, <2>2, <3>1 DEF Stores
  <2>4. CASE g # h
    <3>1. p \notin H BY <1>2, <2>1, <2>4
    <3>2. held'[h] = held[h] BY <2>1, <2>4 DEF TypeInv, RestOK
    <3> QED BY <1>5, <1>7, <1>14, <2>2, <3>1, <3>2 DEF Stores
  <2> QED BY <2>3, <2>4
<1>15. CASE GivesUp(p)
  <2>1. p \notin W2 /\ p \notin H /\ p \notin H2
    BY <1>2, <1>15 DEF GivesUp, Moves
  <2> QED BY <1>4, <1>5, <1>7, <1>15, <2>1 DEF GivesUp, Dues
<1>16. CASE Charges(p)
  <2>1. p \notin W /\ p \notin W2 /\ p \notin H /\ p \notin H2
    BY <1>2, <1>16 DEF Charges, Moves
  <2> QED BY <1>5, <1>7, <1>16, <2>1 DEF Charges, Dues
<1>17. CASE DiesAt(p)
  <2>1. p \notin W2 /\ p \notin H2
    BY <1>2, <1>17 DEF DiesAt
  <2> QED BY <1>4, <1>5, <1>7, <1>17, <2>1 DEF DiesAt
<1> QED BY <1>10, <1>11, <1>12, <1>13, <1>14, <1>15, <1>16, <1>17 DEF Move

\* A request is paid for once by each live process and once more for each that died.
THEOREM AnswersArePaidOnce == ASSUME OneByOne PROVE Spec => []PaidOnce
<1> DEFINE Inv == \A h \in Requests : Shared(h)
<1>1. Init => Inv
  <2> SUFFICES ASSUME Init, NEW h \in Requests PROVE Shared(h) OBVIOUS
  <2>1. Wanting(h) = {} /\ Having(h) = {}
    BY BudgetAssumption DEF Init, Wanting, Having, With, Idle, Phase, Payers, Recording
  <2>2. IsFiniteSet(Payers)
    BY FS_Subset, BudgetAssumption DEF Payers
  <2> QED BY <2>1, <2>2, FS_EmptySet, FS_CardinalityType DEF Init, Shared
<1>2. TypeInv /\ Singles /\ Inv /\ [Next]_vars => Inv'
  <2> SUFFICES ASSUME TypeInv, Singles, Inv, [Next]_vars, NEW h \in Requests PROVE Shared(h)'
    OBVIOUS
  <2>1. CASE UNCHANGED vars
    BY <2>1 DEF vars, Shared, Wanting, Having, With, Payers
  <2>2. ASSUME team' = team, UNCHANGED <<job, Dues>> PROVE Shared(h)'
    BY <2>2 DEF Dues, Shared, Wanting, Having, With, Payers
  <2>3. CASE Next
    BY <2>2, <2>3, EachMoves, SharedStep
  <2> QED BY <2>1, <2>3
<1>3. TypeInv /\ Inv => PaidOnce
  <2> SUFFICES ASSUME TypeInv, Inv, NEW h \in Requests
               PROVE  asked[h] <= Cardinality(Payers) + crashes
    BY DEF PaidOnce, Payers
  <2>1. IsFiniteSet(Payers) /\ IsFiniteSet(Wanting(h))
    <3>1. Wanting(h) \subseteq Payers BY DEF Wanting, With
    <3> QED BY <3>1, FS_Subset, BudgetAssumption DEF Payers
  <2>2. /\ Cardinality(Wanting(h)) \in Nat /\ Cardinality(Payers) \in Nat
        /\ crashes \in Nat /\ asked[h] \in Nat
    BY <2>1, FS_CardinalityType, BudgetAssumption DEF TypeInv, RestOK
  <2> QED BY <2>2 DEF Shared
<1> HIDE DEF Inv
<1> QED BY <1>1, <1>2, <1>3, TypeCorrect, OneRequestEach, PTL DEF Spec

-----------------------------------------------------------------------------
(* What one process spends.                                                *)

\* What is spent is in the ledger, is owed to it, or died with a process; and a process
\* that may ask finds the ledger within the budget.
SpendsWell ==
  \A p \in Procs : team = {p} =>
    LET phase == Phase(job[p]) IN
    /\ spent.calls <= ledger.calls + crashes + (IF phase \in {"has", "stored"} THEN 1 ELSE 0)
    /\ spent.tokens <= ledger.tokens + crashes * MaxUsage + Owed(job[p])
    /\ phase = "cleared" => ledger.calls + 1 <= MaxCalls /\ ledger.tokens + Input <= MaxTokens
    /\ spent.calls <= MaxCalls + crashes
    /\ spent.calls > 0 => spent.tokens <= MaxTokens - Input + (1 + crashes) * MaxUsage

\* No answer costs more than the most one is charged for.
LEMMA OwedOK ==
  ASSUME TypeInv, Singles, NEW p \in Procs
  PROVE  Owed(job[p]) \in 0..MaxUsage
<1> DEFINE j == job[p]
<1>1. j \in Shapes /\ JobOK(j) /\ SingleOK(p) BY DEF TypeInv, JobsOK, Singles
<1>2. CASE Phase(j) = "has"
  <2>1. \/ j.step = "ask" /\ j.todo = <<>>
        \/ j.step = "store" /\ j.todo # <<>>
    BY <1>2 DEF Phase, Recording
  <2>2. PICK h \in Requests : j.misses = <<h>> /\ (j.todo = <<>> \/ j.todo = <<h>>)
    BY <1>1, <2>1 DEF SingleOK
  <2>3. j.usage \in Seq(1..MaxUsage) BY <1>1 DEF Shapes
  <2>6. Len(j.usage) = 1
    <3>1. CASE j.step = "ask" /\ j.todo = <<>>
      <4>1. Len(j.usage) + Len(j.todo) = Len(j.misses) BY <1>1, <3>1 DEF JobOK
      <4>2. Len(j.misses) = 1 /\ Len(j.todo) = 0 BY <2>2, <3>1, OneTail
      <4> QED BY <2>3, <4>1, <4>2
    <3>2. CASE j.step = "store" /\ j.todo # <<>>
      <4>1. Len(j.usage) = Len(j.todo) BY <1>1, <3>2 DEF JobOK
      <4>2. Len(j.todo) = 1 BY <2>2, <3>2, OneTail
      <4> QED BY <4>1, <4>2
    <3> QED BY <2>1, <3>1, <3>2
  <2>7. j.usage[1] \in 1..MaxUsage BY <2>3, <2>6, HeadOfOne
  <2> QED BY <1>2, <2>7, BudgetAssumption DEF Owed
<1>3. CASE Phase(j) = "stored"
  BY <1>1, <1>3 DEF Owed, Shapes
<1>4. CASE Phase(j) \notin {"has", "stored"}
  BY <1>4, BudgetAssumption DEF Owed
<1> QED BY <1>2, <1>3, <1>4

\* Spending is checked, charged and written off as it should.
LEMMA SpendStep ==
  ASSUME TypeInv, BudgetInv, Singles, SpendsWell,
         NEW p \in team, team' = team, Only(p), Move(p)
  PROVE  SpendsWell'
<1> DEFINE from == Phase(job[p])
           to   == Phase(job'[p])
           owed == Owed(job[p])
           owes == Owed(job'[p])
           lost == crashes * MaxUsage
           cost == crashes' * MaxUsage
           Due1(phase) == IF phase \in {"has", "stored"} THEN 1 ELSE 0
<1>1. p \in Procs BY Numbers
<1>2. SUFFICES ASSUME team = {p}
               PROVE  /\ spent'.calls <= ledger'.calls + crashes' + Due1(to)
                      /\ spent'.tokens <= ledger'.tokens + cost + owes
                      /\ to = "cleared" =>
                           ledger'.calls + 1 <= MaxCalls /\ ledger'.tokens + Input <= MaxTokens
                      /\ spent'.calls <= MaxCalls + crashes'
                      /\ spent'.calls > 0 =>
                           spent'.tokens <= MaxTokens - Input + (1 + crashes') * MaxUsage
  BY <1>1 DEF SpendsWell
<1>3. /\ spent.calls <= ledger.calls + crashes + Due1(from)
      /\ spent.tokens <= ledger.tokens + lost + owed
      /\ from = "cleared" => ledger.calls + 1 <= MaxCalls /\ ledger.tokens + Input <= MaxTokens
      /\ spent.calls <= MaxCalls + crashes
      /\ spent.calls > 0 => spent.tokens <= MaxTokens - Input + (1 + crashes) * MaxUsage
  BY <1>1, <1>2 DEF SpendsWell
<1>4. /\ ledger.calls \in Nat /\ ledger.tokens \in Nat /\ crashes \in Nat
      /\ spent.calls \in Nat /\ spent.tokens \in Nat /\ owed \in Nat /\ owed <= MaxUsage
      /\ MaxUsage \in Nat /\ MaxCalls \in Nat /\ MaxTokens \in Nat /\ Input \in Nat
      /\ lost \in Nat /\ (1 + crashes) * MaxUsage = lost + MaxUsage
  <2>1. crashes \in Nat /\ MaxUsage \in Nat BY BudgetAssumption, Numbers
  <2>2. owed \in Nat /\ owed <= MaxUsage BY <1>1, <2>1, OwedOK
  <2>3. lost \in Nat /\ (1 + crashes) * MaxUsage = lost + MaxUsage BY <2>1
  <2> QED BY <2>1, <2>2, <2>3, BudgetAssumption, Numbers DEF TypeInv, RestOK
<1>5. crashes' = crashes => cost = lost /\ (1 + crashes') * MaxUsage = lost + MaxUsage
  BY <1>4
<1>6. crashes' = crashes + 1 =>
        cost = lost + MaxUsage /\ (1 + crashes') * MaxUsage = lost + MaxUsage + MaxUsage
  BY <1>4
<1>7. /\ job[p].step \in Counted => /\ job[p].mine.calls = ledger.calls + 1
                                    /\ job[p].mine.tokens = ledger.tokens + job[p].charge
      /\ job[p].step = "refuse" => job[p].mine = ledger
      /\ job[p].charge \in Nat
  BY <1>1, <1>2, Numbers DEF BudgetInv, AloneExact
<1>8. /\ from \notin {"has", "stored"} => owed = 0
      /\ to \notin {"has", "stored"} => owes = 0
      /\ from = "stored" => owed = job[p].charge
  BY DEF Owed
<1> HIDE DEF from, to, owed, owes, lost, cost
<1>10. CASE Stays(p)
  <2>1. UNCHANGED <<spent, crashes>> /\ to = from BY <1>10 DEF Stays, Dues, to, from
  <2>2. owes = owed BY <1>8, <1>10, <2>1 DEF Stays, to, from, owes, owed
  <2>3. ledger' # ledger => ledger'.calls >= ledger.calls /\ ledger'.tokens >= ledger.tokens
    BY <1>4, <1>7, <1>10 DEF Stays, Counted
  <2>4. to = "cleared" => ledger' = ledger BY <1>10, <2>1 DEF Stays, from
  <2>5. ledger'.calls \in Nat /\ ledger'.tokens \in Nat
    BY <1>1, <1>4, <1>10, Numbers DEF Stays
  <2>6. ledger'.calls >= ledger.calls /\ ledger'.tokens >= ledger.tokens
    BY <1>4, <2>3
  <2> QED BY <1>3, <1>4, <1>5, <2>1, <2>2, <2>4, <2>5, <2>6
<1>11. CASE Misses(p)
  <2>1. UNCHANGED <<spent, crashes, ledger>> /\ to = "wants" /\ from = "free"
    BY <1>11 DEF Misses, Dues, to, from
  <2> QED BY <1>3, <1>4, <1>5, <1>8, <2>1
<1>12. CASE Clears(p)
  <2>1. UNCHANGED <<spent, crashes, ledger>> /\ to = "cleared" /\ from = "wants"
    BY <1>12 DEF Clears, Moves, Dues, to, from
  <2>2. ledger.calls + 1 <= MaxCalls /\ ledger.tokens + Input <= MaxTokens
    BY <1>12 DEF Clears, WithinBudget
  <2> QED BY <1>3, <1>4, <1>5, <1>8, <2>1, <2>2
<1>13. CASE Asks(p)
  <2>1. /\ UNCHANGED <<crashes, ledger>> /\ to = "has" /\ from = "cleared"
        /\ owes \in 1..MaxUsage
        /\ spent'.calls = spent.calls + 1 /\ spent'.tokens = spent.tokens + owes
    BY <1>13 DEF Asks, Moves, to, from, owes
  <2>2. owes \in Nat /\ owes <= MaxUsage BY <1>4, <2>1
  <2> QED BY <1>3, <1>4, <1>5, <1>8, <2>1, <2>2
<1>14. CASE Stores(p)
  <2>1. /\ UNCHANGED <<spent, crashes, ledger>> /\ to = "stored" /\ from = "has"
        /\ owes = owed
    BY <1>14 DEF Stores, Moves, to, from, owes, owed
  <2> QED BY <1>3, <1>4, <1>5, <2>1
<1>15. CASE GivesUp(p)
  <2>1. /\ UNCHANGED <<spent, crashes, ledger>> /\ to = "free" /\ from \in {"wants", "cleared"}
    BY <1>15 DEF GivesUp, Moves, Dues, to, from
  <2> QED BY <1>3, <1>4, <1>5, <1>8, <2>1
<1>16. CASE Charges(p)
  <2>1. /\ UNCHANGED <<spent, crashes>> /\ to = "free" /\ from = "stored"
        /\ job[p].step = "write" /\ ledger' = job[p].mine
    BY <1>16 DEF Charges, Moves, Dues, to, from
  <2>2. ledger'.calls = ledger.calls + 1 /\ ledger'.tokens = ledger.tokens + owed
    BY <1>7, <1>8, <2>1 DEF Counted
  <2> QED BY <1>3, <1>4, <1>5, <1>8, <2>1, <2>2
<1>17. CASE DiesAt(p)
  <2>1. UNCHANGED <<spent, ledger>> /\ crashes' = crashes + 1 /\ to = "free"
    BY <1>17 DEF DiesAt, to
  <2> QED BY <1>3, <1>4, <1>6, <1>8, <2>1
<1> QED BY <1>10, <1>11, <1>12, <1>13, <1>14, <1>15, <1>16, <1>17 DEF Move

\* A process alone spends within its budget, but for one answer that was underestimated
\* and one for each death.
THEOREM SpendingIsBounded == ASSUME OneByOne PROVE Spec => []StaysWithinBudget
<1>1. Init => SpendsWell
  <2>1. \A n \in Nat : 0 * n = 0 OBVIOUS
  <2> QED BY <2>1, BudgetAssumption DEF Init, SpendsWell, Idle, Phase, Owed, Empty, Recording
<1>2. TypeInv /\ BudgetInv /\ Singles /\ SpendsWell /\ [Next]_vars => SpendsWell'
  <2> SUFFICES ASSUME TypeInv, BudgetInv, Singles, SpendsWell, [Next]_vars PROVE SpendsWell'
    OBVIOUS
  <2>1. ASSUME team' = team, UNCHANGED <<job, ledger, Dues>> PROVE SpendsWell'
    BY <2>1 DEF Dues, SpendsWell
  <2>2. CASE UNCHANGED vars
    BY <2>1, <2>2 DEF vars, Dues
  <2>3. CASE Next
    BY <2>1, <2>3, EachMoves, SpendStep
  <2> QED BY <2>2, <2>3
<1>3. TypeInv /\ SpendsWell => StaysWithinBudget
  <2> SUFFICES ASSUME TypeInv, SpendsWell, Alone
               PROVE  /\ spent.calls <= MaxCalls + crashes
                      /\ spent.calls > 0 =>
                           spent.tokens <= MaxTokens - Input + (1 + crashes) * MaxUsage
    BY DEF StaysWithinBudget
  <2>1. PICK p : team = {p}
    BY FS_Subset, FS_Singleton, BudgetAssumption, Numbers DEF Alone
  <2> QED BY <2>1, Numbers DEF SpendsWell
<1> QED BY <1>1, <1>2, <1>3, TypeCorrect, BudgetHolds, OneRequestEach, PTL DEF Spec
=============================================================================
