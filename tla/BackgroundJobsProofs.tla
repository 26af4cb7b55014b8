------------------------- MODULE BackgroundJobsProofs -------------------------
(***************************************************************************)
(* For any users, commands and deaths: the types of BackgroundJobs are     *)
(* right; no worker is started for a task that needs approval before it is *)
(* approved; a row that says running names a worker that was started.  And *)
(* unless commands overlap or one dies half-way, one worker is started and *)
(* a cancelled one works no more.                                          *)
(***************************************************************************)
EXTENDS BackgroundJobs, SequenceTheorems, FiniteSetTheorems, TLAPS

-----------------------------------------------------------------------------
(* What a process may have left to execute.                                *)

UserOnly   == {"launch", "spawned", "queue", "signal", "cancel", "delete"}
WorkerOnly == {"mark", "work", "complete", "finish"}

\* What may stand directly before an instruction.
Leads(i) ==
  CASE i = "launch"           -> {"getStartable"}
    [] i = "queue"            -> {"getAwaiting"}
    [] i = "signal"           -> {"get", "getLive"}
    [] i = "cancel"           -> {"signal"}
    [] i \in {"check", "fail", "spawned", "complete", "delete"} -> {}
    [] OTHER                  -> Instructions

Reaches(c, S) == \E i \in DOMAIN c : c[i] \in S

\* A check looks at what the next read has read; what is decided by a read follows it
\* directly; and what comes of a launch or of the work is recorded at once.
GoodCode(a, c) ==
  /\ c \in Seq(Instructions)
  /\ \A i \in DOMAIN c :
       /\ c[i] = "check" => i = 1 /\ Len(c) > 1 /\ c[2] \in Reads
       /\ i = 1 \/ c[i - 1] \in Leads(c[i])
       /\ c[i] = "spawned" => Len(c) = 1
       /\ c[i] = "complete" => ~Reaches(c, {"work"})
       /\ a \in Users => c[i] \notin WorkerOnly
       /\ a \in Pids => c[i] \notin UserOnly

LaunchIn(c) == \E i \in DOMAIN c : c[i] = "launch"

First(c, i) == c # <<>> /\ Head(c) = i

\* What is left after an instruction: what it begins with follows that instruction, and
\* after a check it is the read that is to be made again.
LEMMA TailGood ==
  ASSUME NEW a, NEW c, GoodCode(a, c), c # <<>>
  PROVE  /\ GoodCode(a, Tail(c))
         /\ LaunchIn(Tail(c)) => LaunchIn(c)
         /\ \A S : Reaches(Tail(c), S) => Reaches(c, S)
         /\ \A i : First(Tail(c), i) => i \in Instructions /\ Head(c) \in Leads(i)
         /\ ~First(Tail(c), "spawned")
         /\ First(Tail(c), "launch") => Head(c) = "getStartable"
         /\ Head(c) = "check" => Tail(c) # <<>> /\ Head(Tail(c)) \in Reads
         /\ Head(c) = "complete" => ~Reaches(Tail(c), {"work", "complete"})
<1> DEFINE t == Tail(c)
<1>1. /\ c \in Seq(Instructions) /\ DOMAIN c = 1..Len(c) /\ Len(c) \in Nat \ {0}
      /\ Head(c) = c[1] /\ 1 \in DOMAIN c
  BY LenProperties, EmptySeq DEF GoodCode
<1>2. /\ t \in Seq(Instructions) /\ Len(t) = Len(c) - 1
      /\ \A i \in 1..Len(t) : t[i] = c[i + 1]
  BY <1>1, HeadTailProperties
<1>3. DOMAIN t = 1..(Len(c) - 1)
  BY <1>2, LenProperties
<1> HIDE DEF t
<1>4. ASSUME NEW i \in DOMAIN t
      PROVE  /\ i + 1 \in DOMAIN c /\ t[i] = c[i + 1] /\ i \in Nat /\ i + 1 # 1
             /\ c[i] \in Leads(t[i]) /\ (i # 1 => t[i - 1] = c[i])
  <2>1. i + 1 \in DOMAIN c /\ t[i] = c[i + 1] /\ i \in Nat /\ i + 1 # 1 /\ (i + 1) - 1 = i
    BY <1>1, <1>2, <1>3
  <2>2. c[i] \in Leads(t[i])
    BY <2>1 DEF GoodCode
  <2>3. ASSUME i # 1 PROVE t[i - 1] = c[i]
    <3>1. i - 1 \in 1..Len(t) /\ (i - 1) + 1 = i
      BY <1>1, <1>2, <1>3, <2>1, <2>3
    <3> QED BY <1>2, <3>1
  <2> QED BY <2>1, <2>2, <2>3
<1>5. \A S : Reaches(t, S) => Reaches(c, S)
  BY <1>4 DEF Reaches
<1>6. ASSUME NEW i \in DOMAIN t
      PROVE  /\ t[i] \notin {"check", "spawned", "fail", "complete"}
             /\ a \in Users => t[i] \notin WorkerOnly
             /\ a \in Pids => t[i] \notin UserOnly
             /\ i = 1 \/ t[i - 1] \in Leads(t[i])
  <2>1. t[i] \notin {"check", "spawned", "fail", "complete"}
    BY <1>4 DEF Leads
  <2> QED BY <1>4, <2>1 DEF GoodCode
<1>7. GoodCode(a, t)
  BY <1>2, <1>6 DEF GoodCode
<1>8. LaunchIn(t) => LaunchIn(c)
  BY <1>4 DEF LaunchIn
<1>9. ASSUME t # <<>>
      PROVE  Head(t) = t[1] /\ 1 \in DOMAIN t /\ t[1] = c[2] /\ t[1] \in Instructions
  <2>1. Len(t) \in Nat \ {0}
    BY <1>2, <1>9, EmptySeq
  <2>2. 1 \in DOMAIN t
    BY <1>2, <1>3, <2>1
  <2>3. t[1] = c[2]
    <3>1. 1 + 1 = 2
      OBVIOUS
    <3> QED BY <1>4, <2>2, <3>1
  <2>4. t \in Seq(Instructions)
    BY <1>2
  <2>5. Head(t) = t[1] /\ t[1] \in Instructions
    BY <1>9, <2>1, <2>2, <2>4
  <2> QED BY <2>2, <2>3, <2>5
<1>10. \A i : First(t, i) => i \in Instructions /\ Head(c) \in Leads(i)
  BY <1>1, <1>4, <1>9 DEF First
<1>11. Head(c) = "check" => t # <<>> /\ Head(t) \in Reads
  <2> SUFFICES ASSUME Head(c) = "check" PROVE t # <<>> /\ Head(t) \in Reads
    OBVIOUS
  <2>1. Len(c) > 1 /\ c[2] \in Reads
    BY <1>1 DEF GoodCode
  <2>2. t # <<>>
    BY <1>1, <1>2, <2>1, EmptySeq
  <2> QED BY <1>9, <2>1, <2>2
<1>12. Head(c) = "complete" => ~Reaches(t, {"work", "complete"})
  <2> SUFFICES ASSUME Head(c) = "complete", NEW i \in DOMAIN t PROVE t[i] \notin {"work", "complete"}
    BY DEF Reaches
  <2>1. ~Reaches(c, {"work"})
    BY <1>1 DEF GoodCode
  <2> QED BY <1>4, <1>6, <2>1 DEF Reaches
<1>13. ~First(t, "spawned") /\ (First(t, "launch") => Head(c) = "getStartable")
  BY <1>10 DEF Leads
<1> QED
  BY <1>5, <1>7, <1>8, <1>10, <1>11, <1>12, <1>13 DEF t

\* A read that is to be made again, with something before it.
LEMMA AgainGood ==
  ASSUME NEW a, NEW c, GoodCode(a, c), c # <<>>, Head(c) \in Reads, NEW x \in {"check", "fail"}
  PROVE  /\ GoodCode(a, <<x>> \o c) /\ (LaunchIn(<<x>> \o c) => LaunchIn(c))
         /\ \A S : x \notin S /\ Reaches(<<x>> \o c, S) => Reaches(c, S)
         /\ First(<<x>> \o c, x) /\ <<x>> \o c # NotSpawned
<1> DEFINE d == <<x>> \o c
<1>1. /\ c \in Seq(Instructions) /\ DOMAIN c = 1..Len(c) /\ Len(c) \in Nat \ {0}
      /\ Head(c) = c[1] /\ 1 \in DOMAIN c
  BY LenProperties, EmptySeq DEF GoodCode
<1>2. <<x>> \in Seq(Instructions) /\ Len(<<x>>) = 1 /\ <<x>>[1] = x
  BY DEF Instructions, Writes
<1>3. /\ d \in Seq(Instructions) /\ Len(d) = 1 + Len(c)
      /\ \A i \in 1..(1 + Len(c)) : d[i] = IF i <= 1 THEN <<x>>[i] ELSE c[i - 1]
  BY <1>1, <1>2, ConcatProperties
<1>4. DOMAIN d = 1..(1 + Len(c)) /\ 1 \in DOMAIN d /\ 2 \in DOMAIN d
  BY <1>1, <1>3, LenProperties
<1> HIDE DEF d
<1>5. d[1] = x /\ d[2] = c[1]
  BY <1>2, <1>3, <1>4
<1>6. ASSUME NEW i \in DOMAIN c PROVE c[i] \notin {"check", "spawned", "complete"}
  <2>1. c[1] \notin {"check", "spawned", "complete"}
    BY <1>1 DEF Reads
  <2>2. c[i] \in {"check", "spawned", "complete"} => i = 1
    BY <1>1 DEF GoodCode, Leads
  <2> QED BY <2>1, <2>2
<1>7. ASSUME NEW i \in DOMAIN d, i # 1
      PROVE  i - 1 \in DOMAIN c /\ d[i] = c[i - 1]
  BY <1>1, <1>3, <1>4, <1>7
<1>8. ASSUME NEW i \in DOMAIN d, i # 1 PROVE d[i - 1] \in Leads(d[i])
  <2>1. i - 1 \in DOMAIN c /\ d[i] = c[i - 1]
    BY <1>7, <1>8
  <2>2. CASE i = 2
    <3>1. Leads(d[2]) = Instructions
      BY <1>1, <1>5 DEF Leads, Reads
    <3> QED BY <1>5, <2>2, <3>1 DEF Instructions, Writes
  <2>3. CASE i # 2
    <3>1. i - 1 # 1 /\ i - 1 \in DOMAIN d
      BY <1>1, <1>4, <1>8, <2>1, <2>3
    <3>2. d[i - 1] = c[(i - 1) - 1]
      BY <1>7, <3>1
    <3>3. c[(i - 1) - 1] \in Leads(c[i - 1])
      BY <2>1, <3>1 DEF GoodCode
    <3> QED BY <2>1, <3>2, <3>3
  <2> QED BY <2>2, <2>3
<1>9. ASSUME NEW i \in DOMAIN d
      PROVE  /\ d[i] = "check" => i = 1 /\ Len(d) > 1 /\ d[2] \in Reads
             /\ d[i] \notin {"spawned", "complete"}
             /\ a \in Users => d[i] \notin WorkerOnly
             /\ a \in Pids => d[i] \notin UserOnly
  <2>1. CASE i = 1
    BY <1>1, <1>3, <1>5, <2>1 DEF WorkerOnly, UserOnly
  <2>2. CASE i # 1
    BY <1>6, <1>7, <2>2 DEF GoodCode
  <2> QED BY <2>1, <2>2
<1>10. GoodCode(a, d)
  BY <1>3, <1>8, <1>9 DEF GoodCode
<1>11. \A S : x \notin S /\ Reaches(d, S) => Reaches(c, S)
  BY <1>5, <1>7 DEF Reaches
<1>12. LaunchIn(d) => LaunchIn(c)
  <2> SUFFICES ASSUME NEW i \in DOMAIN d, d[i] = "launch" PROVE LaunchIn(c)
    BY DEF LaunchIn
  <2>1. i # 1
    BY <1>5
  <2> QED BY <1>7, <2>1 DEF LaunchIn
<1>13. d # <<>> /\ Head(d) = x /\ d # NotSpawned
  <2>1. Len(NotSpawned) = 1
    BY DEF NotSpawned
  <2>2. Len(d) # 1
    BY <1>1, <1>3
  <2> QED BY <1>1, <1>3, <1>5, <2>1, <2>2, EmptySeq
<1> QED
  BY <1>10, <1>11, <1>12, <1>13 DEF First, d

LEMMA NothingGood ==
  ASSUME NEW a PROVE GoodCode(a, <<>>) /\ ~LaunchIn(<<>>) /\ \A i : ~First(<<>>, i)
<1>1. <<>> \in Seq(Instructions) /\ DOMAIN <<>> = {}
  OBVIOUS
<1> QED BY <1>1 DEF GoodCode, LaunchIn, First

\* Approving and starting, written out.
LEMMA ApproveStart == Approve \o Start = << "getAwaiting", "queue", "getStartable", "launch" >>
<1> DEFINE d == Approve \o Start
           e == << "getAwaiting", "queue", "getStartable", "launch" >>
<1>1. /\ Approve \in Seq(Instructions) /\ Len(Approve) = 2 /\ Start \in Seq(Instructions) /\ Len(Start) = 2
      /\ Approve[1] = e[1] /\ Approve[2] = e[2] /\ Start[1] = e[3] /\ Start[2] = e[4]
  BY DEF Approve, Start, Instructions, Reads, Writes
<1>2. d \in Seq(Instructions) /\ Len(d) = 4 /\ d[1] = e[1] /\ d[2] = e[2] /\ d[3] = e[3] /\ d[4] = e[4]
  BY <1>1, ConcatProperties, SMTT(20)
<1>3. e \in Seq(Instructions) /\ Len(e) = 4
  BY DEF Instructions, Reads, Writes
<1> HIDE DEF d, e
<1>4. \A i \in 1..4 : d[i] = e[i]
  BY <1>2
<1>5. d = e
  BY <1>2, <1>3, <1>4, SeqEqual
<1> QED BY <1>5 DEF d, e

\* The scripts of the commands and of the workers.
LEMMA ScriptsGood ==
  /\ \A u \in Users : /\ \A c \in {Start, Cancel, Approve, Approve \o Start, Delete, NotSpawned, <<"get">>} :
                           GoodCode(u, c) /\ ~First(c, "spawned") /\ ~First(c, "launch")
                      /\ GoodCode(u, Spawned) /\ First(Spawned, "spawned") /\ ~First(Spawned, "launch")
  /\ ~LaunchIn(NotSpawned) /\ ~LaunchIn(<<"get">>) /\ ~LaunchIn(Spawned)
  /\ \A p \in Pids, c \in {Worker, Complete, Fail} :
       GoodCode(p, c) /\ ~LaunchIn(c) /\ ~First(c, "spawned") /\ ~First(c, "launch")
<1>1. Users \cap Pids = {}
  BY JobsAssumption DEF Pids
<1>2. Approve \o Start = << "getAwaiting", "queue", "getStartable", "launch" >>
  BY ApproveStart
<1> USE DEF GoodCode, Leads, Reaches, WorkerOnly, UserOnly, First, LaunchIn, Instructions, Reads, Writes
<1>3. ASSUME NEW u \in Users
      PROVE  GoodCode(u, Start) /\ ~First(Start, "spawned") /\ ~First(Start, "launch")
  BY <1>1, <1>3 DEF Start
<1>4. ASSUME NEW u \in Users
      PROVE  GoodCode(u, Cancel) /\ ~First(Cancel, "spawned") /\ ~First(Cancel, "launch")
  BY <1>1, <1>4 DEF Cancel
<1>5. ASSUME NEW u \in Users
      PROVE  GoodCode(u, Approve) /\ ~First(Approve, "spawned") /\ ~First(Approve, "launch")
  BY <1>1, <1>5 DEF Approve
<1>6. ASSUME NEW u \in Users
      PROVE  /\ GoodCode(u, Approve \o Start) /\ ~First(Approve \o Start, "spawned")
             /\ ~First(Approve \o Start, "launch")
  BY <1>1, <1>2, <1>6
<1>7. ASSUME NEW u \in Users
      PROVE  GoodCode(u, NotSpawned) /\ ~First(NotSpawned, "spawned") /\ ~First(NotSpawned, "launch")
  BY <1>1, <1>7 DEF NotSpawned
<1>8. ASSUME NEW u \in Users
      PROVE  GoodCode(u, <<"get">>) /\ ~First(<<"get">>, "spawned") /\ ~First(<<"get">>, "launch")
  BY <1>1, <1>8
<1>14. ASSUME NEW u \in Users
       PROVE  GoodCode(u, Delete) /\ ~First(Delete, "spawned") /\ ~First(Delete, "launch")
  BY <1>1, <1>14 DEF Delete
<1>9. ASSUME NEW u \in Users
      PROVE  GoodCode(u, Spawned) /\ First(Spawned, "spawned") /\ ~First(Spawned, "launch")
  BY <1>1, <1>9 DEF Spawned
<1>10. ~LaunchIn(NotSpawned) /\ ~LaunchIn(<<"get">>) /\ ~LaunchIn(Spawned)
  BY DEF NotSpawned, Spawned
<1>11. ASSUME NEW p \in Pids
       PROVE  GoodCode(p, Worker) /\ ~LaunchIn(Worker) /\ ~First(Worker, "spawned") /\ ~First(Worker, "launch")
  <2>1. CASE kind = "task"
    BY <1>1, <1>11, <2>1 DEF Worker
  <2>2. CASE kind # "task"
    BY <1>1, <1>11, <2>2 DEF Worker
  <2> QED BY <2>1, <2>2
<1>12. ASSUME NEW p \in Pids
       PROVE  /\ GoodCode(p, Complete) /\ ~LaunchIn(Complete) /\ ~First(Complete, "spawned")
              /\ ~First(Complete, "launch")
  <2>1. CASE kind = "task"
    BY <1>1, <1>12, <2>1 DEF Complete
  <2>2. CASE kind # "task"
    BY <1>1, <1>12, <2>2 DEF Complete
  <2> QED BY <2>1, <2>2
<1>13. ASSUME NEW p \in Pids
       PROVE  GoodCode(p, Fail) /\ ~LaunchIn(Fail) /\ ~First(Fail, "spawned") /\ ~First(Fail, "launch")
  BY <1>1, <1>13 DEF Fail
<1> HIDE DEF GoodCode, Leads, Reaches, WorkerOnly, UserOnly, First, LaunchIn, Instructions, Reads, Writes
<1> QED BY <1>3, <1>4, <1>5, <1>6, <1>7, <1>8, <1>9, <1>10, <1>11, <1>12, <1>13, <1>14

-----------------------------------------------------------------------------
(* The inductive invariant.                                                *)

CodesGood == \A a \in Actors : GoodCode(a, code[a])

\* Only a worker that was started has anything to execute, and a command that is to
\* record the worker it started has started it.
WorkersStarted ==
  /\ \A p \in Pids : code[p] # <<>> => p \in Launched
  /\ \A u \in Users : First(code[u], "spawned") => child[u] \in Launched

\* A command that read the row as startable finds it approved still.
ApprovalKept ==
  /\ \A u \in Users : needsApproval /\ First(code[u], "launch") => row.approved
  /\ \A a \in Actors : seen[a].approved => row.approved

\* The workers are numbered in the order of their start, and there is a command for
\* every one of them and for every one still to come.
Launchers == {u \in Users : LaunchIn(code[u])}
WorkersCounted ==
  \E n \in Nat : /\ Launched = 1..n
                 /\ IsFiniteSet(Launchers) /\ n + Cardinality(Launchers) <= commands

JobsInv ==
  /\ TypeOK /\ CodesGood /\ WorkersStarted /\ ApprovalKept /\ WorkersCounted
  /\ ApprovedFirst /\ RunningHasWorker

LEMMA UsersAreNotPids == Users \cap Pids = {} /\ Users \cap (Pids \cup {0}) = {}
BY JobsAssumption DEF Pids

LEMMA InitJobs == Init => JobsInv
<1> SUFFICES ASSUME Init PROVE JobsInv
  OBVIOUS
<1>1. /\ code = [a \in Actors |-> <<>>] /\ seen = [a \in Actors |-> NoRow]
      /\ child = [u \in Users |-> 0] /\ commands = 0 /\ deaths = 0 /\ disturbed = FALSE
      /\ worker = [p \in Pids |-> "none"] /\ parent = [p \in Pids |-> "init"]
      /\ kind \in Kinds
  BY DEF Init
<1>2. needsApproval \in BOOLEAN
  <2>1. needsApproval \in (IF kind = "task" THEN BOOLEAN ELSE {FALSE})
    BY DEF Init
  <2> QED BY <2>1
<1>3. Launched = {} /\ Launchers = {}
  <2>1. Launched = {}
    BY <1>1 DEF Launched
  <2>2. \A u \in Users : code[u] = <<>>
    BY <1>1 DEF Actors
  <2> QED BY <2>1, <2>2, NothingGood DEF Launchers
<1>4. row \in Row /\ NoRow \in Row /\ row.status # "running" /\ NoRow.approved = FALSE
  BY DEF Init, NoRow, Row, Status, Terminal
<1>5. TypeOK
  <2>1. 0 \in 0..MaxCommands /\ 0 \in 0..MaxDeaths
    BY JobsAssumption
  <2>2. code \in [Actors -> Seq(Instructions)]
    BY <1>1
  <2> QED BY <1>1, <1>2, <1>4, <2>1, <2>2 DEF TypeOK
<1>6. CodesGood /\ WorkersStarted
  <2>1. \A a \in Actors : code[a] = <<>>
    BY <1>1
  <2> QED BY <2>1, NothingGood DEF CodesGood, WorkersStarted, Actors
<1>7. ApprovalKept
  <2>1. \A a \in Actors : code[a] = <<>> /\ seen[a].approved = FALSE
    BY <1>1, <1>4
  <2> QED BY <2>1, NothingGood DEF ApprovalKept, Actors
<1>8. WorkersCounted
  <2>1. 1..0 = {} /\ IsFiniteSet({}) /\ Cardinality({}) = 0 /\ 0 + 0 <= 0
    BY FS_EmptySet
  <2> QED BY <1>1, <1>3, <2>1 DEF WorkersCounted
<1>9. ApprovedFirst /\ RunningHasWorker
  BY <1>3, <1>4 DEF ApprovedFirst, RunningHasWorker
<1> QED BY <1>5, <1>6, <1>7, <1>8, <1>9 DEF JobsInv

\* The count stays right when no worker is started: a process may lose its launch,
\* and a command may bring one.
LEMMA CountKept ==
  ASSUME WorkersCounted, TypeOK, Launched' = Launched, NEW u,
         commands' \in Nat,
         \/ commands' = commands /\ Launchers' \subseteq Launchers
         \/ commands' = commands + 1 /\ Launchers' \subseteq Launchers \cup {u}
  PROVE  WorkersCounted'
<1>1. PICK n \in Nat : /\ Launched = 1..n
                       /\ IsFiniteSet(Launchers) /\ n + Cardinality(Launchers) <= commands
  BY DEF WorkersCounted
<1>2. commands \in Nat
  BY JobsAssumption DEF TypeOK
<1>3. Cardinality(Launchers) \in Nat
  BY <1>1, FS_CardinalityType
<1>4. /\ IsFiniteSet(Launchers \cup {u}) /\ Cardinality(Launchers \cup {u}) \in Nat
      /\ Cardinality(Launchers \cup {u}) <= Cardinality(Launchers) + 1
  <2>1. /\ IsFiniteSet(Launchers \cup {u})
        /\ Cardinality(Launchers \cup {u}) =
             IF u \in Launchers THEN Cardinality(Launchers) ELSE Cardinality(Launchers) + 1
    BY <1>1, FS_AddElement
  <2> QED BY <1>3, <2>1
<1>5. CASE commands' = commands /\ Launchers' \subseteq Launchers
  <2>1. IsFiniteSet(Launchers') /\ Cardinality(Launchers') <= Cardinality(Launchers)
    BY <1>1, <1>5, FS_Subset
  <2>2. Cardinality(Launchers') \in Nat
    BY <2>1, FS_CardinalityType
  <2>3. n + Cardinality(Launchers') <= commands'
    BY <1>1, <1>2, <1>3, <1>5, <2>1, <2>2
  <2> QED BY <1>1, <2>1, <2>3 DEF WorkersCounted
<1>6. CASE commands' = commands + 1 /\ Launchers' \subseteq Launchers \cup {u}
  <2>1. IsFiniteSet(Launchers') /\ Cardinality(Launchers') <= Cardinality(Launchers \cup {u})
    BY <1>4, <1>6, FS_Subset
  <2>2. Cardinality(Launchers') \in Nat
    BY <2>1, FS_CardinalityType
  <2>3. n + Cardinality(Launchers') <= commands'
    BY <1>1, <1>2, <1>3, <1>4, <1>6, <2>1, <2>2
  <2> QED BY <1>1, <2>1, <2>3 DEF WorkersCounted
<1> QED BY <1>5, <1>6

\* A step of the process a that starts no worker: a goes on with c, of others the code
\* is left alone or dropped, and nothing that was approved stops being so.
LEMMA Advance ==
  ASSUME JobsInv, NEW a \in Actors, NEW c,
         UNCHANGED <<kind, needsApproval>>,
         code' \in [Actors -> Seq(Instructions)], code'[a] = c, GoodCode(a, c),
         \A b \in Actors \ {a} : code'[b] = code[b] \/ code'[b] = <<>>,
         a \in Pids => c = <<>> \/ a \in Launched,
         ~First(c, "spawned"),
         needsApproval /\ First(c, "launch") => row'.approved,
         row' \in Row, row.approved => row'.approved, RunningHasWorker',
         seen' \in [Actors -> Row], \A b \in Actors : seen'[b].approved => row'.approved,
         child' \in [Users -> Pids \cup {0}], \A v \in Users \ {a} : child'[v] = child[v],
         worker' \in [Pids -> {"none", "alive", "zombie", "gone"}], Launched' = Launched,
         parent' \in [Pids -> Users \cup {"init"}],
         commands' \in 0..MaxCommands, deaths' \in 0..MaxDeaths, disturbed' \in BOOLEAN,
         \/ commands' = commands /\ (LaunchIn(c) => LaunchIn(code[a]))
         \/ commands' = commands + 1
  PROVE  JobsInv'
<1>1. TypeOK'
  BY DEF TypeOK, JobsInv
<1>2. CodesGood'
  <2> SUFFICES ASSUME NEW b \in Actors PROVE GoodCode(b, code'[b])
    BY DEF CodesGood
  <2>1. CASE b = a
    BY <2>1
  <2>2. CASE b # a
    BY <2>2, NothingGood DEF JobsInv, CodesGood
  <2> QED BY <2>1, <2>2
<1>3. WorkersStarted'
  <2>1. ASSUME NEW p \in Pids, code'[p] # <<>> PROVE p \in Launched
    <3>1. p \in Actors
      BY DEF Actors
    <3> QED BY <2>1, <3>1 DEF JobsInv, WorkersStarted
  <2>2. ASSUME NEW u \in Users, First(code'[u], "spawned") PROVE child'[u] \in Launched
    <3>1. u \in Actors /\ u # a
      BY <2>2 DEF Actors
    <3>2. code'[u] = code[u]
      BY <2>2, <3>1, NothingGood
    <3> QED BY <2>2, <3>1, <3>2 DEF JobsInv, WorkersStarted
  <2> QED BY <2>1, <2>2 DEF WorkersStarted
<1>4. ApprovalKept'
  <2>1. ASSUME NEW u \in Users, needsApproval, First(code'[u], "launch") PROVE row'.approved
    <3>1. u \in Actors
      BY DEF Actors
    <3>2. CASE u = a
      BY <2>1, <3>2
    <3>3. CASE u # a
      <4>1. code'[u] = code[u]
        BY <2>1, <3>1, <3>3, NothingGood
      <4> QED BY <2>1, <4>1 DEF JobsInv, ApprovalKept
    <3> QED BY <3>2, <3>3
  <2> QED BY <2>1 DEF ApprovalKept
<1>5. WorkersCounted'
  <2>1. ASSUME NEW u \in Users, LaunchIn(code'[u]), u # a PROVE LaunchIn(code[u])
    <3>1. u \in Actors
      BY DEF Actors
    <3> QED BY <2>1, <3>1, NothingGood
  <2>2. Launchers' = {u \in Users : LaunchIn(code'[u])}
    BY DEF Launchers
  <2>3. Launchers' \subseteq Launchers \cup {a}
    BY <2>1, <2>2 DEF Launchers
  <2>4. (LaunchIn(c) => LaunchIn(code[a])) => Launchers' \subseteq Launchers
    BY <2>1, <2>2 DEF Launchers
  <2>5. commands' \in Nat /\ WorkersCounted /\ TypeOK
    BY JobsAssumption DEF JobsInv
  <2> QED BY <2>3, <2>4, <2>5, CountKept
<1>6. ApprovedFirst'
  BY DEF JobsInv, ApprovedFirst
<1> QED BY <1>1, <1>2, <1>3, <1>4, <1>5, <1>6 DEF JobsInv

-----------------------------------------------------------------------------
(* Every action but a launch is such a step.                               *)

LEMMA TypesOf ==
  ASSUME JobsInv
  PROVE  /\ needsApproval \in BOOLEAN /\ disturbed \in BOOLEAN
         /\ row \in Row /\ row.status \in Status /\ row.pid \in Pids \cup {0} /\ row.approved \in BOOLEAN
         /\ seen \in [Actors -> Row] /\ child \in [Users -> Pids \cup {0}]
         /\ code \in [Actors -> Seq(Instructions)]
         /\ worker \in [Pids -> {"none", "alive", "zombie", "gone"}]
         /\ parent \in [Pids -> Users \cup {"init"}]
         /\ commands \in 0..MaxCommands /\ deaths \in 0..MaxDeaths
         /\ NoRow \in Row /\ NoRow.approved = FALSE
         /\ \A a \in Actors : seen[a].approved => row.approved
BY DEF JobsInv, TypeOK, Row, NoRow, Status, ApprovalKept

\* A process that has an instruction left, and what is left after it.
LEMMA AtInstruction ==
  ASSUME JobsInv, NEW a \in Actors, code[a] # <<>>
  PROVE  /\ GoodCode(a, code[a]) /\ GoodCode(a, Rest(a))
         /\ LaunchIn(Rest(a)) => LaunchIn(code[a])
         /\ ~First(Rest(a), "spawned")
         /\ First(Rest(a), "launch") => Head(code[a]) = "getStartable"
         /\ Head(code[a]) = "check" => Rest(a) # <<>> /\ Head(Rest(a)) \in Reads
         /\ a \in Pids => a \in Launched
<1>1. GoodCode(a, code[a])
  BY DEF JobsInv, CodesGood
<1>2. a \in Pids => a \in Launched
  BY DEF JobsInv, WorkersStarted
<1> QED BY <1>1, <1>2, TailGood DEF Rest

\* Taking back what is kept of the row, for any code.
LEMMA Keeping ==
  ASSUME JobsInv, NEW a \in Actors, NEW c, NEW r \in Row, Keep(a, c, r), GoodCode(a, c),
         r.approved => row.approved
  PROVE  /\ code' \in [Actors -> Seq(Instructions)] /\ code'[a] = c
         /\ \A b \in Actors \ {a} : code'[b] = code[b]
         /\ seen' \in [Actors -> Row] /\ \A b \in Actors : seen'[b].approved => row.approved
<1>1. c \in Seq(Instructions)
  BY DEF GoodCode
<1>2. code' = [code EXCEPT ![a] = c]
  BY DEF Keep, Then
<1>3. \/ seen' = [seen EXCEPT ![a] = r]
      \/ seen' = [seen EXCEPT ![a] = NoRow]
  BY DEF Keep
<1> QED BY <1>1, <1>2, <1>3, TypesOf, ZenonT(30)

LEMMA Going ==
  ASSUME JobsInv, NEW a \in Actors, NEW c, Then(a, c), GoodCode(a, c)
  PROVE  /\ code' \in [Actors -> Seq(Instructions)] /\ code'[a] = c
         /\ \A b \in Actors \ {a} : code'[b] = code[b]
<1>1. c \in Seq(Instructions)
  BY DEF GoodCode
<1> QED BY <1>1, TypesOf DEF Then

Same == UNCHANGED <<kind, needsApproval, commands, deaths, disturbed>>

LEMMA ReadKeeps ==
  ASSUME JobsInv, NEW a \in Actors, Read(a), Same PROVE JobsInv'
<1>1. /\ code[a] # <<>> /\ Head(code[a]) \in Reads
      /\ UNCHANGED <<row, child, worker, parent>>
  BY DEF Read
<1>2. PICK c : /\ Keep(a, c, row)
               /\ \/ c = <<>>
                  \/ c = <<"check">> \o code[a]
                  \/ c = Rest(a) /\ Wanted(Head(code[a]), row)
  BY DEF Read
<1>3. /\ GoodCode(a, c) /\ (LaunchIn(c) => LaunchIn(code[a])) /\ ~First(c, "spawned")
      /\ needsApproval /\ First(c, "launch") => row.approved
      /\ a \in Pids => a \in Launched
  <2>1. CASE c = <<>>
    BY <1>1, <2>1, NothingGood, AtInstruction
  <2>2. CASE c = <<"check">> \o code[a]
    BY <1>1, <2>2, AgainGood, AtInstruction DEF First
  <2>3. CASE c = Rest(a) /\ Wanted(Head(code[a]), row)
    <3>1. First(c, "launch") /\ needsApproval => row.approved
      BY <1>1, <2>3, AtInstruction DEF Wanted
    <3> QED BY <1>1, <2>3, <3>1, AtInstruction
  <2> QED BY <1>2, <2>1, <2>2, <2>3
<1>4. Launched' = Launched /\ RunningHasWorker'
  BY <1>1 DEF Launched, RunningHasWorker, JobsInv
<1> QED BY <1>1, <1>2, <1>3, <1>4, TypesOf, Keeping, Advance DEF Same

LEMMA CheckKeeps ==
  ASSUME JobsInv, NEW a \in Actors, Check(a), Same PROVE JobsInv'
<1>1. /\ code[a] # <<>> /\ Head(code[a]) = "check"
      /\ UNCHANGED <<row, child, worker, parent>>
  BY DEF Check, At
<1>2. PICK c : /\ Keep(a, c, seen[a])
               /\ \/ c = <<>>
                  \/ c = Reconcile \o Rest(a)
                  \/ c = Tail(Rest(a)) /\ Wanted(Head(Rest(a)), seen[a])
  BY DEF Check
<1>3. /\ GoodCode(a, Rest(a)) /\ Rest(a) # <<>> /\ Head(Rest(a)) \in Reads
      /\ LaunchIn(Rest(a)) => LaunchIn(code[a])
      /\ a \in Pids => a \in Launched
  BY <1>1, AtInstruction
<1>4. /\ GoodCode(a, c) /\ (LaunchIn(c) => LaunchIn(code[a])) /\ ~First(c, "spawned")
      /\ needsApproval /\ First(c, "launch") => row.approved
  <2>1. CASE c = <<>>
    BY <2>1, NothingGood
  <2>2. CASE c = Reconcile \o Rest(a)
    BY <1>3, <2>2, AgainGood DEF First, Reconcile
  <2>3. CASE c = Tail(Rest(a)) /\ Wanted(Head(Rest(a)), seen[a])
    <3>1. /\ GoodCode(a, c) /\ (LaunchIn(c) => LaunchIn(code[a])) /\ ~First(c, "spawned")
          /\ First(c, "launch") => Head(Rest(a)) = "getStartable"
      BY <1>3, <2>3, TailGood
    <3>2. First(c, "launch") /\ needsApproval => row.approved
      BY <2>3, <3>1, TypesOf DEF Wanted
    <3> QED BY <3>1, <3>2
  <2> QED BY <1>2, <2>1, <2>2, <2>3
<1>5. Launched' = Launched /\ RunningHasWorker'
  BY <1>1 DEF Launched, RunningHasWorker, JobsInv
<1>6. seen[a] \in Row /\ (seen[a].approved => row.approved)
  BY TypesOf
<1> QED BY <1>1, <1>2, <1>3, <1>4, <1>5, <1>6, TypesOf, Keeping, Advance DEF Same

LEMMA WriteKeeps ==
  ASSUME JobsInv, NEW a \in Actors, Write(a), Same PROVE JobsInv'
<1>1. /\ code[a] # <<>> /\ Head(code[a]) \in Writes
      /\ Then(a, Rest(a)) /\ UNCHANGED <<seen, worker, parent>>
      /\ child' = [u \in Users |-> IF u = a THEN 0 ELSE child[u]]
  BY DEF Write
<1>2. /\ GoodCode(a, Rest(a)) /\ ~First(Rest(a), "spawned")
      /\ LaunchIn(Rest(a)) => LaunchIn(code[a])
      /\ ~First(Rest(a), "launch")
      /\ a \in Pids => a \in Launched
  BY <1>1, AtInstruction DEF Writes
<1>3. Launched' = Launched
  BY <1>1 DEF Launched
<1> DEFINE i == Head(code[a])
<1>4. Becomes(i) \in Status /\ (Becomes(i) = "running" => i \in {"spawned", "mark"})
  BY <1>1 DEF Becomes, Writes, Status, Terminal
<1>5. /\ i = "spawned" => a \in Users /\ child[a] \in Launched
      /\ i = "mark" => a \in Launched
  <2>1. /\ code[a] \in Seq(Instructions) /\ 1 \in DOMAIN code[a] /\ i = code[a][1]
    BY <1>1, TypesOf, EmptySeq, LenProperties
  <2>2. GoodCode(a, code[a])
    BY DEF JobsInv, CodesGood
  <2>3. (i = "spawned" => a \notin Pids) /\ (i = "mark" => a \notin Users)
    BY <2>1, <2>2 DEF GoodCode, WorkerOnly, UserOnly
  <2>4. ASSUME a \in Users, i = "spawned" PROVE child[a] \in Launched
    BY <1>1, <2>4 DEF JobsInv, WorkersStarted, First
  <2> QED BY <1>2, <2>3, <2>4 DEF Actors
<1>6. PidWritten(a, i) \in Pids \cup {0} /\ (i \in {"spawned", "mark"} => PidWritten(a, i) \in Launched)
  BY <1>1, <1>5, TypesOf DEF PidWritten, Launched
<1>7. /\ row' \in Row /\ (row.approved => row'.approved)
      /\ row'.status = "running" => row'.pid \in Launched
  <2>1. CASE row.status = "pruned"
    <3>1. row' = row
      BY <2>1 DEF Write
    <3> QED BY <2>1, <3>1, TypesOf
  <2>2. CASE row.status # "pruned"
    <3>1. row' = [row EXCEPT !.status = Becomes(i), !.pid = PidWritten(a, i),
                             !.approved = @ \/ i = "queue"]
      BY <2>2 DEF Write
    <3>2. /\ row.approved \in BOOLEAN
          /\ row' = [status |-> Becomes(i), pid |-> PidWritten(a, i),
                     approved |-> (row.approved \/ i = "queue")]
      BY <3>1, TypesOf DEF Row
    <3> QED BY <1>4, <1>6, <3>2 DEF Row
  <2> QED BY <2>1, <2>2
<1>8. child' \in [Users -> Pids \cup {0}] /\ \A v \in Users \ {a} : child'[v] = child[v]
  BY <1>1, TypesOf
<1>9. RunningHasWorker'
  BY <1>3, <1>7 DEF RunningHasWorker
<1>10. \A b \in Actors : seen'[b].approved => row'.approved
  BY <1>1, <1>7, TypesOf
<1> HIDE DEF i
<1> QED BY <1>1, <1>2, <1>3, <1>7, <1>8, <1>9, <1>10, TypesOf, Going, Advance, ZenonT(30) DEF Same

LEMMA SignalKeeps ==
  ASSUME JobsInv, NEW u \in Users, Signal(u), Same PROVE JobsInv'
<1> DEFINE p == seen[u].pid
<1>1. /\ code[u] # <<>> /\ Head(code[u]) = "signal" /\ UNCHANGED <<row, child, parent>>
      /\ worker' = IF Alive(p) THEN [worker EXCEPT ![p] = Ended(p)] ELSE worker
      /\ code' = [a \in Actors |-> IF a = u THEN Rest(u) ELSE IF a = p THEN <<>> ELSE code[a]]
      /\ seen' = [a \in Actors |-> IF a \in {u, p} THEN NoRow ELSE seen[a]]
  BY DEF Signal, At
<1>2. u \in Actors
  BY DEF Actors
<1>3. /\ GoodCode(u, Rest(u)) /\ ~First(Rest(u), "spawned") /\ ~First(Rest(u), "launch")
      /\ LaunchIn(Rest(u)) => LaunchIn(code[u])
      /\ Rest(u) \in Seq(Instructions)
  BY <1>1, <1>2, AtInstruction DEF GoodCode
<1>4. worker' \in [Pids -> {"none", "alive", "zombie", "gone"}] /\ Launched' = Launched
  BY <1>1, TypesOf DEF Alive, Ended, Launched
<1>5. /\ code' \in [Actors -> Seq(Instructions)] /\ code'[u] = Rest(u)
      /\ \A b \in Actors \ {u} : code'[b] = code[b] \/ code'[b] = <<>>
  BY <1>1, <1>2, <1>3, TypesOf, EmptySeq
<1>6. seen' \in [Actors -> Row] /\ \A b \in Actors : seen'[b].approved => row.approved
  BY <1>1, TypesOf
<1>7. RunningHasWorker' /\ u \notin Pids
  BY <1>1, <1>4, UsersAreNotPids DEF RunningHasWorker, JobsInv
<1> HIDE DEF p
<1> QED BY <1>1, <1>2, <1>3, <1>4, <1>5, <1>6, <1>7, TypesOf, Advance DEF Same

\* What the process does next is in its script.
LEMMA ScriptKeeps ==
  ASSUME JobsInv, Same, NEW a \in Actors, NEW c, code[a] # <<>>, Then(a, c),
         GoodCode(a, c), ~LaunchIn(c), ~First(c, "launch"), ~First(c, "spawned"),
         UNCHANGED <<row, seen, child, worker, parent>>
  PROVE  JobsInv'
<1>1. Launched' = Launched /\ RunningHasWorker'
  BY DEF Launched, RunningHasWorker, JobsInv
<1> QED BY <1>1, TypesOf, AtInstruction, Going, Advance DEF Same

LEMMA WorkersKeep ==
  ASSUME JobsInv, Same, NEW p \in Pids, Work(p) \/ Finish(p) \/ Exits(p) PROVE JobsInv'
<1>1. p \in Actors /\ p \notin Users
  BY UsersAreNotPids DEF Actors
<1>2. CASE Work(p)
  BY <1>1, <1>2, ScriptsGood, ScriptKeeps DEF Work, At
<1>3. CASE Finish(p)
  BY <1>1, <1>3, ScriptsGood, NothingGood, ScriptKeeps DEF Finish, At
<1>4. CASE Exits(p)
  <2>1. /\ code[p] = <<>> /\ UNCHANGED <<row, code, seen, child, parent>>
        /\ worker[p] = "alive" /\ worker' = [worker EXCEPT ![p] = Ended(p)]
    BY <1>4 DEF Exits, Alive
  <2>2. worker' \in [Pids -> {"none", "alive", "zombie", "gone"}] /\ Launched' = Launched
    BY <2>1, TypesOf DEF Ended, Launched
  <2>3. RunningHasWorker'
    BY <2>1, <2>2 DEF RunningHasWorker, JobsInv
  <2> QED BY <1>1, <2>1, <2>2, <2>3, TypesOf, NothingGood, Advance DEF Same
<1> QED BY <1>2, <1>3, <1>4

\* The worker that is started next has a number of its own.
LEMMA NextNumber ==
  ASSUME JobsInv, NEW u \in Users, code[u] # <<>>, Head(code[u]) = "launch",
         NEW p, p = Cardinality(Launched) + 1
  PROVE  /\ u \in Launchers /\ u \in Actors /\ p \in Pids /\ p \notin Launched /\ p # u /\ p \in Actors
         /\ Cardinality(Launchers) \in Nat /\ Cardinality(Launchers) >= 1
         /\ \E n \in Nat : /\ Launched = 1..n /\ p = n + 1
                           /\ IsFiniteSet(Launchers) /\ n + Cardinality(Launchers) <= commands
<1>1. PICK n \in Nat : /\ Launched = 1..n
                       /\ IsFiniteSet(Launchers) /\ n + Cardinality(Launchers) <= commands
  BY DEF WorkersCounted, JobsInv
<1>2. u \in Launchers /\ u \in Actors
  <2>1. /\ code[u] \in Seq(Instructions) /\ 1 \in DOMAIN code[u] /\ code[u][1] = "launch"
    BY TypesOf, EmptySeq, LenProperties DEF Actors
  <2> QED BY <2>1 DEF Launchers, LaunchIn, Actors
<1>3. Cardinality(Launchers) \in Nat /\ Cardinality(Launchers) >= 1
  <2>1. Cardinality(Launchers) \in Nat
    BY <1>1, FS_CardinalityType
  <2>2. Cardinality(Launchers) # 0
    BY <1>1, <1>2, FS_EmptySet
  <2> QED BY <2>1, <2>2
<1>4. Cardinality(Launched) = n
  <2>1. Cardinality(1..n) = IF 1 > n THEN 0 ELSE n - 1 + 1
    BY FS_Interval
  <2> QED BY <1>1, <2>1
<1>5. p = n + 1 /\ p \in Pids /\ p \notin Launched /\ p # u /\ p \in Actors
  <2>1. p = n + 1
    BY <1>4
  <2>2. commands \in Nat /\ commands <= MaxCommands /\ MaxCommands \in Nat
    BY TypesOf, JobsAssumption
  <2>3. n + 1 \in 1..MaxCommands /\ n + 1 \notin 1..n
    BY <1>1, <1>3, <2>2
  <2> QED BY <1>1, <2>1, <2>3, UsersAreNotPids DEF Pids, Actors
<1> QED BY <1>1, <1>2, <1>3, <1>5

LEMMA LaunchKeeps ==
  ASSUME JobsInv, Same, NEW u \in Users, Launch(u) PROVE JobsInv'
<1> DEFINE p == Cardinality(Launched) + 1
           Reaped(q) == worker[q] = "zombie" /\ parent[q] = u
<1>1. /\ code[u] # <<>> /\ Head(code[u]) = "launch" /\ UNCHANGED <<row, seen>>
      /\ child' = [child EXCEPT ![u] = p]
      /\ worker' = [q \in Pids |-> IF q = p THEN "alive" ELSE IF Reaped(q) THEN "gone" ELSE worker[q]]
      /\ parent' = [q \in Pids |-> IF q = p THEN u ELSE IF Reaped(q) THEN "init" ELSE parent[q]]
      /\ code' = [code EXCEPT ![u] = Spawned, ![p] = Worker]
  BY DEF Launch, At
<1>2. /\ u \in Launchers /\ u \in Actors /\ p \in Pids /\ p \notin Launched /\ p # u /\ p \in Actors
      /\ Cardinality(Launchers) \in Nat /\ Cardinality(Launchers) >= 1
  BY <1>1, NextNumber
<1>3. PICK n \in Nat : /\ Launched = 1..n /\ p = n + 1
                       /\ IsFiniteSet(Launchers) /\ n + Cardinality(Launchers) <= commands
  BY <1>1, NextNumber
<1> HIDE DEF p
<1>7. Launched' = Launched \cup {p}
  BY <1>1, <1>2 DEF Launched
<1>8. /\ GoodCode(u, Spawned) /\ ~LaunchIn(Spawned) /\ ~First(Spawned, "launch")
      /\ GoodCode(p, Worker) /\ ~LaunchIn(Worker) /\ ~First(Worker, "spawned")
      /\ ~First(Worker, "launch")
      /\ Spawned \in Seq(Instructions) /\ Worker \in Seq(Instructions)
  BY <1>2, ScriptsGood DEF GoodCode
<1>9. code' = [a \in Actors |-> IF a = p THEN Worker ELSE IF a = u THEN Spawned ELSE code[a]]
  BY <1>1, <1>2, TypesOf
<1>10. TypeOK'
  <2>1. code' \in [Actors -> Seq(Instructions)]
    BY <1>8, <1>9, TypesOf
  <2>2. child' \in [Users -> Pids \cup {0}]
    BY <1>1, <1>2, TypesOf
  <2>3. /\ worker' \in [Pids -> {"none", "alive", "zombie", "gone"}]
        /\ parent' \in [Pids -> Users \cup {"init"}]
    BY <1>1, <1>2, TypesOf
  <2> QED BY <1>1, <2>1, <2>2, <2>3 DEF JobsInv, TypeOK, Same
<1>11. CodesGood'
  BY <1>2, <1>8, <1>9 DEF JobsInv, CodesGood
<1>12. WorkersStarted'
  <2>1. ASSUME NEW q \in Pids, code'[q] # <<>> PROVE q \in Launched'
    <3>1. q \in Actors /\ q # u
      BY UsersAreNotPids DEF Actors
    <3> QED BY <1>7, <1>9, <2>1, <3>1 DEF JobsInv, WorkersStarted
  <2>2. ASSUME NEW v \in Users, First(code'[v], "spawned") PROVE child'[v] \in Launched'
    <3>1. v \in Actors /\ v # p
      BY <1>2, UsersAreNotPids DEF Actors
    <3>2. CASE v = u
      BY <1>1, <1>7, <3>2, TypesOf
    <3>3. CASE v # u
      <4>1. code'[v] = code[v] /\ child'[v] = child[v]
        BY <1>1, <1>9, <3>1, <3>3, TypesOf
      <4> QED BY <1>7, <2>2, <4>1 DEF JobsInv, WorkersStarted
    <3> QED BY <3>2, <3>3
  <2> QED BY <2>1, <2>2 DEF WorkersStarted
<1>13. ApprovalKept'
  <2>1. ASSUME NEW v \in Users, needsApproval, First(code'[v], "launch") PROVE row.approved
    <3>1. v \in Actors /\ v # p
      BY <1>2, UsersAreNotPids DEF Actors
    <3>2. v # u
      BY <1>8, <1>9, <2>1, <3>1
    <3>3. code'[v] = code[v]
      BY <1>9, <3>1, <3>2
    <3> QED BY <2>1, <3>3 DEF JobsInv, ApprovalKept
  <2> QED BY <1>1, <2>1 DEF JobsInv, ApprovalKept, Same
<1>14. WorkersCounted'
  <2>1. Launchers' \subseteq Launchers \ {u}
    <3>1. ASSUME NEW v \in Users, LaunchIn(code'[v]) PROVE v # u /\ LaunchIn(code[v])
      <4>1. v \in Actors /\ v # p
        BY <1>2, UsersAreNotPids DEF Actors
      <4> QED BY <1>8, <1>9, <3>1, <4>1
    <3>2. Launchers' = {v \in Users : LaunchIn(code'[v])}
      BY DEF Launchers
    <3> QED BY <3>1, <3>2 DEF Launchers
  <2>2. /\ IsFiniteSet(Launchers \ {u})
        /\ Cardinality(Launchers \ {u}) = Cardinality(Launchers) - 1
    BY <1>2, <1>3, FS_RemoveElement
  <2>3. IsFiniteSet(Launchers') /\ Cardinality(Launchers') <= Cardinality(Launchers) - 1
    BY <2>1, <2>2, FS_Subset
  <2>4. Cardinality(Launchers') \in Nat
    BY <2>3, FS_CardinalityType
  <2>5. commands' = commands /\ commands \in Nat
    BY TypesOf, JobsAssumption DEF Same
  <2>6. (n + 1) + Cardinality(Launchers') <= commands'
    BY <1>2, <1>3, <2>3, <2>4, <2>5
  <2>7. Launched' = 1..(n + 1)
    <3>1. 1..(n + 1) = (1..n) \cup {n + 1}
      OBVIOUS
    <3> QED BY <1>2, <1>3, <1>7, <3>1
  <2>8. n + 1 \in Nat
    OBVIOUS
  <2> QED BY <2>3, <2>6, <2>7, <2>8 DEF WorkersCounted
<1>15. ApprovedFirst'
  <2>1. needsApproval => row.approved
    BY <1>1 DEF JobsInv, ApprovalKept, First
  <2> QED BY <1>1, <2>1 DEF ApprovedFirst, Same
<1>16. RunningHasWorker'
  BY <1>1, <1>7 DEF JobsInv, RunningHasWorker
<1> QED BY <1>10, <1>11, <1>12, <1>13, <1>14, <1>15, <1>16 DEF JobsInv

LEMMA StepKeeps ==
  ASSUME JobsInv, NEW a \in Actors, Step(a) PROVE JobsInv'
<1>1. Same
  BY DEF Step, Same
<1>2. CASE Read(a) \/ Check(a) \/ Write(a)
  BY <1>1, <1>2, ReadKeeps, CheckKeeps, WriteKeeps
<1>3. CASE a \in Users /\ LaunchFails(a)
  BY <1>1, <1>3, ScriptsGood, ScriptKeeps DEF LaunchFails, At
<1>4. CASE a \in Users /\ (Signal(a) \/ Launch(a))
  BY <1>1, <1>4, SignalKeeps, LaunchKeeps
<1>5. CASE a \in Pids /\ (Work(a) \/ Finish(a) \/ Exits(a))
  BY <1>1, <1>5, WorkersKeep
<1> QED BY <1>2, <1>3, <1>4, <1>5 DEF Step

-----------------------------------------------------------------------------
(* Commands, and what happens to processes.                                *)

\* A user's process that was idle begins c.
LEMMA BeginKeeps ==
  ASSUME JobsInv, NEW u \in Users, NEW c, Begin(u, c),
         GoodCode(u, c), ~First(c, "spawned"), ~First(c, "launch"),
         disturbed' \in BOOLEAN, commands' \in 0..MaxCommands,
         \/ commands' = commands /\ ~LaunchIn(c)
         \/ commands' = commands + 1
  PROVE  JobsInv'
<1>1. /\ Then(u, c) /\ UNCHANGED <<kind, needsApproval, row, seen, child, worker, parent, deaths>>
  BY DEF Begin
<1>2. u \in Actors /\ u \notin Pids
  BY UsersAreNotPids DEF Actors
<1>3. Launched' = Launched /\ RunningHasWorker'
  BY <1>1 DEF Launched, RunningHasWorker, JobsInv
<1> QED BY <1>1, <1>2, <1>3, TypesOf, Going, Advance

LEMMA CountedTypes ==
  ASSUME JobsInv, NEW u \in Users, Counted(u)
  PROVE  commands' \in 0..MaxCommands /\ commands' = commands + 1 /\ disturbed' \in BOOLEAN
<1>1. commands' \in 0..MaxCommands /\ commands' = commands + 1
  BY TypesOf, JobsAssumption DEF Counted
<1>2. disturbed' \in BOOLEAN
  BY DEF Counted
<1> QED BY <1>1, <1>2

LEMMA CommandKeeps ==
  ASSUME JobsInv, NEW u \in Users, Command(u) PROVE JobsInv'
<1>1. CASE StartJob(u)
  BY <1>1, TypesOf, CountedTypes, ScriptsGood, BeginKeeps DEF StartJob
<1>2. CASE CancelJob(u)
  BY <1>2, TypesOf, CountedTypes, ScriptsGood, BeginKeeps DEF CancelJob
<1>3. CASE ApproveJob(u)
  BY <1>3, TypesOf, CountedTypes, ScriptsGood, BeginKeeps DEF ApproveJob
<1>4. CASE Prune(u)
  BY <1>4, TypesOf, CountedTypes, ScriptsGood, BeginKeeps DEF Prune
<1> QED BY <1>1, <1>2, <1>3, <1>4 DEF Command

LEMMA PollKeeps ==
  ASSUME JobsInv, NEW u \in Users, Poll(u) PROVE JobsInv'
BY TypesOf, ScriptsGood, BeginKeeps DEF Poll

\* A process is gone, and what it had left to execute with it.
LEMMA DropKeeps ==
  ASSUME JobsInv, NEW a \in Actors, Keep(a, <<>>, NoRow),
         UNCHANGED <<kind, needsApproval, row, commands>>,
         child' \in [Users -> Pids \cup {0}], \A v \in Users \ {a} : child'[v] = child[v],
         worker' \in [Pids -> {"none", "alive", "zombie", "gone"}], Launched' = Launched,
         parent' \in [Pids -> Users \cup {"init"}],
         deaths' \in 0..MaxDeaths, disturbed' \in BOOLEAN
  PROVE  JobsInv'
<1>1. RunningHasWorker'
  BY DEF RunningHasWorker, JobsInv
<1>2. /\ code' \in [Actors -> Seq(Instructions)] /\ code'[a] = <<>>
      /\ \A b \in Actors \ {a} : code'[b] = code[b]
      /\ seen' \in [Actors -> Row] /\ \A b \in Actors : seen'[b].approved => row.approved
  BY TypesOf, NothingGood, Keeping
<1>3. row' \in Row /\ row'.approved = row.approved /\ commands' \in 0..MaxCommands
  BY TypesOf
<1> QED BY <1>1, <1>2, <1>3, NothingGood, Advance

LEMMA LeavesTypes ==
  ASSUME JobsInv, NEW u \in Users, Leaves(u)
  PROVE  /\ worker' \in [Pids -> {"none", "alive", "zombie", "gone"}] /\ Launched' = Launched
         /\ parent' \in [Pids -> Users \cup {"init"}]
BY TypesOf DEF Leaves, Launched

LEMMA ExitKeeps ==
  ASSUME JobsInv, NEW u \in Users, Exit(u) PROVE JobsInv'
<1>1. /\ code[u] = <<>> /\ Leaves(u)
      /\ UNCHANGED <<kind, needsApproval, row, code, seen, child, commands, deaths, disturbed>>
  BY DEF Exit, Idle
<1>2. u \in Actors /\ u \notin Pids
  BY UsersAreNotPids DEF Actors
<1>3. RunningHasWorker'
  BY <1>1, LeavesTypes DEF RunningHasWorker, JobsInv
<1> QED BY <1>1, <1>2, <1>3, TypesOf, LeavesTypes, NothingGood, Advance

LEMMA DeathsKeep ==
  ASSUME JobsInv,
         \/ \E u \in Users : UserDies(u)
         \/ \E p \in Pids : WorkerDies(p)
  PROVE  JobsInv'
<1>1. ASSUME NEW u \in Users, UserDies(u) PROVE JobsInv'
  <2>1. deaths' \in 0..MaxDeaths
    BY <1>1, TypesOf, JobsAssumption DEF UserDies
  <2>2. child' \in [Users -> Pids \cup {0}] /\ \A v \in Users \ {u} : child'[v] = child[v]
    BY <1>1, TypesOf DEF UserDies
  <2> QED BY <1>1, <2>1, <2>2, LeavesTypes, DropKeeps DEF UserDies, Actors
<1>2. ASSUME NEW p \in Pids, WorkerDies(p) PROVE JobsInv'
  <2>1. deaths' \in 0..MaxDeaths
    BY <1>2, TypesOf, JobsAssumption DEF WorkerDies
  <2>2. worker' \in [Pids -> {"none", "alive", "zombie", "gone"}] /\ Launched' = Launched
    BY <1>2, TypesOf DEF WorkerDies, Alive, Ended, Launched
  <2> QED BY <1>2, <2>1, <2>2, TypesOf, DropKeeps DEF WorkerDies, Actors
<1> QED BY <1>1, <1>2

LEMMA NextKeeps == JobsInv /\ [Next]_vars => JobsInv'
<1> SUFFICES ASSUME JobsInv, [Next]_vars PROVE JobsInv'
  OBVIOUS
<1>1. CASE \E a \in Actors : Step(a)
  BY <1>1, StepKeeps
<1>2. CASE \E u \in Users : Command(u) \/ Poll(u) \/ Exit(u) \/ UserDies(u)
  BY <1>2, CommandKeeps, PollKeeps, ExitKeeps, DeathsKeep
<1>3. CASE \E p \in Pids : WorkerDies(p)
  BY <1>3, DeathsKeep
<1>4. CASE UNCHANGED vars
  BY <1>4 DEF vars, jobVars, JobsInv, TypeOK, CodesGood, WorkersStarted, ApprovalKept,
              WorkersCounted, Launchers, Launched, ApprovedFirst, RunningHasWorker
<1> QED BY <1>1, <1>2, <1>3, <1>4 DEF Next

THEOREM JobsInvariant == Spec => []JobsInv
BY InitJobs, NextKeeps, PTL DEF Spec

-----------------------------------------------------------------------------
\* Every variable keeps to its values (task_manager.py, agent_runner.py).
THEOREM TypeCorrect == Spec => []TypeOK
<1>1. JobsInv => TypeOK
  BY DEF JobsInv
<1> QED BY <1>1, JobsInvariant, PTL

\* However start, approve, cancel and prune overlap and whichever process dies, no
\* worker is started for a task before it is approved (task_manager.py: start_task_process).
THEOREM ApprovalComesFirst == Spec => []ApprovedFirst
<1>1. JobsInv => ApprovedFirst
  BY DEF JobsInv
<1> QED BY <1>1, JobsInvariant, PTL

\* A running row has the pid of a worker that was started, so that reading the row
\* finds out that it ended (task_manager.py: _reconcile_task_runtime).
THEOREM RunningIsStarted == Spec => []RunningHasWorker
<1>1. JobsInv => RunningHasWorker
  BY DEF JobsInv
<1> QED BY <1>1, JobsInvariant, PTL

-----------------------------------------------------------------------------
(* What holds as long as no two commands overlapped and none died half-way. *)

\* Only a worker that lives has anything to execute; and whoever is to look for a worker
\* has read a running row, with the pid of one that was started.
Looking ==
  /\ \A p \in Pids : code[p] # <<>> => Alive(p)
  /\ \A a \in Actors : First(code[a], "check") => seen[a].status = "running" /\ seen[a].pid \in Launched

\* One command at a time writes, and one worker is started: by a command that read the row
\* startable before there was one, and that records it.
OneBusy    == \A u, v \in Users : Busy(u) /\ Busy(v) => u = v
OneStarted == \A p, q \in Launched : p = q
NotYet     == \A u \in Users : First(code[u], "launch") \/ First(code[u], "queue") => Launched = {}
Recorded   == row.status \in {"awaiting_approval", "queued"} /\ Launched # {}
                => \E u \in Users : First(code[u], "spawned")

\* Until the command that starts a worker has recorded it nobody cancels or prunes.
RowOpen == \A u \in Users : First(code[u], "launch") \/ First(code[u], "spawned")
                              => row.status \notin {"cancelled", "pruned"}

\* A failure is recorded where no work is left to be done: the start failed, the worker
\* was found gone, or it raised.
FailsLate ==
  \A a \in Actors : First(code[a], "fail") =>
    /\ \A p \in Pids : ~AtWork(p)
    /\ Launched = {} => a \in Users /\ code[a] = NotSpawned

\* A worker at its work is in the row, if there is one and the command that starts it has
\* recorded it; so that a cancel has read its pid, and no cancel gets past the signal while it works.
WorkKnown ==
  \A p \in Pids : AtWork(p) =>
    /\ \/ row.status = "running" /\ row.pid = p
       \/ row.status = "pruned"
       \/ \E u \in Users : First(code[u], "spawned")
    /\ \A u \in Users : ~First(code[u], "cancel") /\ (First(code[u], "signal") => seen[u].pid = p)

Calm == OneBusy /\ OneStarted /\ NotYet /\ Recorded /\ RowOpen /\ FailsLate /\ WorkKnown

CalmInv == Looking /\ (~disturbed => Calm)

BusyWith(c) == c = NotSpawned \/ Reaches(c, UserOnly)

LEMMA BusyIs ==
  /\ \A u \in Users : Busy(u) <=> BusyWith(code[u])
  /\ \A p \in Pids : AtWork(p) <=> Alive(p) /\ Reaches(code[p], {"work", "complete"})
BY DEF Busy, BusyWith, Reaches, UserOnly, AtWork

LEMMA NothingReached == ~BusyWith(<<>>) /\ \A S : ~Reaches(<<>>, S)
<1>1. <<>> # NotSpawned /\ DOMAIN <<>> = {}
  BY DEF NotSpawned
<1> QED BY <1>1 DEF BusyWith, Reaches

\* The instruction a process is at, and what is left after it.
LEMMA OwnCode ==
  ASSUME JobsInv, NEW a \in Actors, code[a] # <<>>
  PROVE  /\ \A S : Reaches(Rest(a), S) => Reaches(code[a], S)
         /\ \A S : Head(code[a]) \in S => Reaches(code[a], S)
         /\ \A i : First(Rest(a), i) => Head(code[a]) \in Leads(i)
         /\ a \in Users => Head(code[a]) \notin WorkerOnly
         /\ a \in Pids => Head(code[a]) \notin UserOnly
         /\ a \in Users /\ BusyWith(Rest(a)) => Busy(a)
         /\ Head(code[a]) = "complete" => ~Reaches(Rest(a), {"work", "complete"})
<1>1. GoodCode(a, code[a])
  BY AtInstruction
<1>2. 1 \in DOMAIN code[a] /\ Head(code[a]) = code[a][1]
  BY <1>1, EmptySeq, LenProperties DEF GoodCode
<1>3. /\ \A S : Reaches(Rest(a), S) => Reaches(code[a], S)
      /\ \A i : First(Rest(a), i) => Head(code[a]) \in Leads(i)
      /\ Head(code[a]) = "complete" => ~Reaches(Rest(a), {"work", "complete"})
  BY <1>1, TailGood DEF Rest
<1>4. Rest(a) # NotSpawned
  <2>1. First(NotSpawned, "fail")
    BY DEF First, NotSpawned
  <2> QED BY <1>3, <2>1 DEF Leads
<1>5. a \in Users /\ BusyWith(Rest(a)) => Busy(a)
  BY <1>3, <1>4, BusyIs DEF BusyWith
<1>6. (a \in Users => Head(code[a]) \notin WorkerOnly) /\ (a \in Pids => Head(code[a]) \notin UserOnly)
  BY <1>1, <1>2 DEF GoodCode
<1> QED BY <1>2, <1>3, <1>5, <1>6 DEF Reaches

\* A step of the process a that starts no worker, as in Advance, leaves Looking true.
LEMMA LookingAdvance ==
  ASSUME JobsInv, Looking, NEW a \in Actors, NEW c, code'[a] = c,
         \A b \in Actors \ {a} : code'[b] = code[b] \/ code'[b] = <<>>,
         \A b \in Actors \ {a} : seen'[b] = seen[b] \/ code'[b] = <<>>,
         \A p \in Pids : Alive(p) /\ code'[p] # <<>> => Alive(p)',
         a \in Pids => c = <<>> \/ code[a] # <<>>,
         Launched' = Launched,
         First(c, "check") => seen'[a].status = "running" /\ seen'[a].pid \in Launched
  PROVE  Looking'
<1>1. ASSUME NEW p \in Pids, code'[p] # <<>> PROVE Alive(p)'
  <2>1. p \in Actors
    BY DEF Actors
  <2>2. code[p] # <<>>
    BY <1>1, <2>1
  <2> QED BY <1>1, <2>2 DEF Looking
<1>2. ASSUME NEW b \in Actors, First(code'[b], "check")
      PROVE  seen'[b].status = "running" /\ seen'[b].pid \in Launched
  <2>1. CASE b = a
    BY <1>2, <2>1
  <2>2. CASE b # a
    <3>1. code'[b] = code[b] /\ seen'[b] = seen[b]
      BY <1>2, <2>2 DEF First
    <3> QED BY <1>2, <3>1 DEF Looking
  <2> QED BY <2>1, <2>2
<1> QED BY <1>1, <1>2 DEF Looking

\* And a step that leaves the row as it is leaves an undisturbed one so.
LEMMA CalmAdvance ==
  ASSUME JobsInv, Calm, NEW a \in Actors, NEW c, code'[a] = c, row' = row, Launched' = Launched,
         \A b \in Actors \ {a} : \/ code'[b] = code[b] /\ seen'[b] = seen[b]
                                 \/ b \in Pids /\ code'[b] = <<>>,
         \A p \in Pids : AtWork(p)' => AtWork(p),
         a \in Users /\ BusyWith(c) => \A v \in Users \ {a} : ~Busy(v),
         ~First(code[a], "spawned"), ~First(c, "spawned"),
         First(c, "launch") \/ First(c, "queue") => Launched = {},
         First(c, "launch") => row.status \notin {"cancelled", "pruned"},
         First(c, "fail") => \A p \in Pids : ~AtWork(p)',
         First(c, "fail") /\ Launched = {} => a \in Users /\ c = NotSpawned,
         First(c, "cancel") => \A p \in Pids : ~AtWork(p)',
         First(c, "signal") => \A p \in Pids : AtWork(p)' => seen'[a].pid = p
  PROVE  Calm'
<1>1. \A u \in Users \ {a} : u \in Actors /\ code'[u] = code[u] /\ seen'[u] = seen[u]
  BY UsersAreNotPids DEF Actors
<1>2. \A u \in Users : Busy(u)' <=> BusyWith(code'[u])
  BY DEF Busy, BusyWith, Reaches, UserOnly
<1>3. OneBusy'
  BY <1>1, <1>2, BusyIs DEF Calm, OneBusy
<1>4. OneStarted' /\ NotYet' /\ RowOpen'
  BY <1>1 DEF Calm, OneStarted, NotYet, RowOpen
<1>5. \A u \in Users : First(code[u], "spawned") => First(code'[u], "spawned")
  BY <1>1
<1>6. Recorded'
  BY <1>5 DEF Calm, Recorded
<1>7. FailsLate'
  <2> SUFFICES ASSUME NEW b \in Actors, First(code'[b], "fail")
               PROVE  /\ \A p \in Pids : ~AtWork(p)'
                      /\ Launched = {} => b \in Users /\ code'[b] = NotSpawned
    BY DEF FailsLate
  <2>1. CASE b = a
    BY <2>1
  <2>2. CASE b # a
    <3>1. code'[b] = code[b]
      BY <2>2 DEF First
    <3> QED BY <3>1 DEF Calm, FailsLate
  <2> QED BY <2>1, <2>2
<1>8. WorkKnown'
  <2> SUFFICES ASSUME NEW p \in Pids, AtWork(p)'
               PROVE  /\ \/ row.status = "running" /\ row.pid = p
                         \/ row.status = "pruned"
                         \/ \E u \in Users : First(code'[u], "spawned")
                      /\ \A u \in Users : ~First(code'[u], "cancel") /\ (First(code'[u], "signal") => seen'[u].pid = p)
    BY DEF WorkKnown
  <2>1. AtWork(p)
    OBVIOUS
  <2> QED BY <1>1, <1>5, <2>1 DEF Calm, WorkKnown
<1> QED BY <1>3, <1>4, <1>6, <1>7, <1>8 DEF Calm

\* No process comes to work but by a launch.
LEMMA WorkStays ==
  ASSUME JobsInv, NEW a \in Actors, NEW c, code'[a] = c,
         \A b \in Actors \ {a} : code'[b] = code[b] \/ code'[b] = <<>>,
         \A p \in Pids : Alive(p)' => Alive(p),
         Reaches(c, {"work", "complete"}) => Reaches(code[a], {"work", "complete"})
  PROVE  \A p \in Pids : AtWork(p)' => AtWork(p)
<1> SUFFICES ASSUME NEW p \in Pids, AtWork(p)' PROVE AtWork(p)
  OBVIOUS
<1>1. Alive(p)' /\ Reaches(code'[p], {"work", "complete"}) /\ p \in Actors
  BY DEF AtWork, Reaches, Actors
<1>2. Reaches(code[p], {"work", "complete"})
  BY <1>1, NothingReached
<1> QED BY <1>1, <1>2, BusyIs

\* What a process has read is kept for a check and for a signal.
LEMMA Kept ==
  ASSUME JobsInv, NEW a \in Actors, NEW c, NEW r, Keep(a, c, r)
  PROVE  /\ code'[a] = c
         /\ \A b \in Actors \ {a} : code'[b] = code[b] /\ seen'[b] = seen[b]
         /\ First(c, "check") \/ First(c, "signal") => seen'[a] = r
BY TypesOf DEF Keep, Then, First

\* Only who is started works, and nobody else if only one was.
LEMMA WorkerStarted ==
  ASSUME JobsInv, NEW p \in Pids, AtWork(p) PROVE p \in Launched
BY DEF AtWork, Alive, Launched

\* While u's command is the one that writes, nobody else records a worker.
LEMMA NobodyElse ==
  ASSUME JobsInv, OneBusy, NEW u \in Users, Busy(u)
  PROVE  \A v \in Users \ {u} : ~Busy(v) /\ \A i \in UserOnly : ~First(code[v], i)
<1> SUFFICES ASSUME NEW v \in Users \ {u}, NEW i \in UserOnly, First(code[v], i) PROVE FALSE
  BY DEF OneBusy
<1>1. v \in Actors /\ code[v] # <<>> /\ Head(code[v]) \in UserOnly
  BY DEF Actors, First
<1>2. Busy(v)
  BY <1>1, OwnCode, BusyIs DEF BusyWith
<1> QED BY <1>2 DEF OneBusy

LEMMA ReadCalm ==
  ASSUME JobsInv, Looking, NEW a \in Actors, Read(a)
  PROVE  Looking' /\ (Calm => Calm')
<1>1. /\ code[a] # <<>> /\ Head(code[a]) \in Reads
      /\ UNCHANGED <<row, child, worker, parent>>
  BY DEF Read
<1>2. PICK c : /\ Keep(a, c, row)
               /\ \/ c = <<>>
                  \/ c = <<"check">> \o code[a] /\ row.status = "running"
                  \/ /\ c = Rest(a) /\ Wanted(Head(code[a]), row)
                     /\ row.status \notin {"running", "pruned"}
  BY DEF Read
<1>3. /\ code'[a] = c /\ \A b \in Actors \ {a} : code'[b] = code[b] /\ seen'[b] = seen[b]
      /\ First(c, "check") \/ First(c, "signal") => seen'[a] = row
  BY <1>2, Kept
<1>4. Launched' = Launched /\ \A p \in Pids : Alive(p)' <=> Alive(p)
  BY <1>1 DEF Launched, Alive
<1>5. CASE c = <<>>
  <2>1. (\A i : ~First(c, i)) /\ ~BusyWith(c) /\ ~Reaches(c, {"work", "complete"})
    BY <1>5, NothingGood, NothingReached
  <2>2. \A p \in Pids : AtWork(p)' => AtWork(p)
    BY <1>3, <1>4, <2>1, WorkStays
  <2>3. ~First(code[a], "spawned")
    BY <1>1 DEF First, Reads
  <2> QED BY <1>1, <1>3, <1>4, <2>1, <2>2, <2>3, LookingAdvance, CalmAdvance
<1>6. CASE c = <<"check">> \o code[a] /\ row.status = "running"
  <2>1. /\ First(c, "check") /\ c # NotSpawned
        /\ \A S : "check" \notin S /\ Reaches(c, S) => Reaches(code[a], S)
    BY <1>1, <1>6, AtInstruction, AgainGood
  <2>2. Looking'
    BY <1>1, <1>3, <1>4, <1>6, <2>1, LookingAdvance DEF JobsInv, RunningHasWorker
  <2>3. \A p \in Pids : AtWork(p)' => AtWork(p)
    BY <1>3, <1>4, <2>1, WorkStays
  <2>4. ASSUME Calm, a \in Users, BusyWith(c) PROVE \A v \in Users \ {a} : ~Busy(v)
    <3>1. "check" \notin UserOnly
      BY DEF UserOnly
    <3>2. Busy(a)
      BY <2>1, <2>4, <3>1, BusyIs DEF BusyWith
    <3> QED BY <2>4, <3>2 DEF Calm, OneBusy
  <2>5. ~First(code[a], "spawned") /\ \A i \in {"spawned", "launch", "queue", "fail", "cancel", "signal"} : ~First(c, i)
    BY <1>1, <2>1 DEF First, Reads
  <2> QED BY <1>1, <1>3, <1>4, <2>2, <2>3, <2>4, <2>5, CalmAdvance
<1>7. CASE /\ c = Rest(a) /\ Wanted(Head(code[a]), row)
           /\ row.status \notin {"running", "pruned"}
  <2>1. /\ \A i : First(c, i) => Head(code[a]) \in Leads(i)
        /\ \A S : Reaches(c, S) => Reaches(code[a], S)
        /\ a \in Users /\ BusyWith(c) => Busy(a)
    BY <1>1, <1>7, OwnCode
  <2>2. \A i : First(c, i) => Reaches(c, {i}) /\ (i \in UserOnly => a \in Users /\ Busy(a))
    <3> SUFFICES ASSUME NEW i, First(c, i) PROVE Reaches(c, {i}) /\ (i \in UserOnly => a \in Users /\ Busy(a))
      OBVIOUS
    <3>1. GoodCode(a, c) /\ c # <<>> /\ Head(c) = i
      BY <1>1, <1>7, AtInstruction DEF First
    <3>2. 1 \in DOMAIN c /\ c[1] = i
      BY <3>1, EmptySeq, LenProperties DEF GoodCode
    <3>3. i \in UserOnly => a \in Users
      BY <3>1, <3>2 DEF GoodCode, Actors
    <3> QED BY <2>1, <3>2, <3>3 DEF Reaches, BusyWith
  <2>3. ~First(c, "check") /\ ~First(c, "fail") /\ ~First(c, "cancel") /\ ~First(c, "spawned")
    BY <1>1, <2>1 DEF Leads, Reads
  <2>4. Looking'
    BY <1>1, <1>3, <1>4, <2>3, LookingAdvance
  <2>5. \A p \in Pids : AtWork(p)' => AtWork(p)
    BY <1>3, <1>4, <2>1, WorkStays
  <2>6. ~First(code[a], "spawned")
    BY <1>1 DEF First, Reads
  <2> SUFFICES ASSUME Calm PROVE Calm'
    BY <2>4
  <2>8. ASSUME NEW i \in {"launch", "queue", "signal"}, First(c, i)
        PROVE  \A v \in Users : ~First(code[v], "spawned")
    <3>1. a \in Users /\ Busy(a)
      BY <2>2, <2>8 DEF UserOnly
    <3> QED BY <2>6, <3>1, NobodyElse DEF Calm, UserOnly
  <2>9. First(c, "launch") \/ First(c, "queue") => Launched = {}
    <3>1. First(c, "launch") => row.status = "queued"
      BY <1>7, <2>1 DEF Leads, Wanted
    <3>2. First(c, "queue") => row.status = "awaiting_approval"
      BY <1>7, <2>1 DEF Leads, Wanted
    <3> QED BY <2>8, <3>1, <3>2 DEF Calm, Recorded
  <2>10. First(c, "launch") => row.status \notin {"cancelled", "pruned"}
    BY <1>7, <2>1 DEF Leads, Wanted
  <2>11. ASSUME First(c, "signal"), NEW p \in Pids, AtWork(p)' PROVE FALSE
    BY <1>7, <2>5, <2>8, <2>11 DEF Calm, WorkKnown
  <2>12. a \in Users /\ BusyWith(c) => \A v \in Users \ {a} : ~Busy(v)
    BY <2>1 DEF Calm, OneBusy
  <2> QED BY <1>1, <1>3, <1>4, <2>3, <2>5, <2>6, <2>9, <2>10, <2>11, <2>12, CalmAdvance
<1> QED BY <1>2, <1>5, <1>6, <1>7

LEMMA CheckCalm ==
  ASSUME JobsInv, Looking, NEW a \in Actors, Check(a)
  PROVE  Looking' /\ (Calm => Calm')
<1>1. /\ code[a] # <<>> /\ Head(code[a]) = "check"
      /\ UNCHANGED <<row, child, worker, parent>>
  BY DEF Check, At
<1>2. PICK c : /\ Keep(a, c, seen[a])
               /\ \/ c = <<>>
                  \/ c = Reconcile \o Rest(a) /\ ~PidIsRunning(seen[a].pid)
                  \/ c = Tail(Rest(a)) /\ Wanted(Head(Rest(a)), seen[a])
  BY DEF Check
<1>3. /\ code'[a] = c /\ \A b \in Actors \ {a} : code'[b] = code[b] /\ seen'[b] = seen[b]
      /\ First(c, "check") \/ First(c, "signal") => seen'[a] = seen[a]
  BY <1>2, Kept
<1>4. Launched' = Launched /\ \A p \in Pids : Alive(p)' <=> Alive(p)
  BY <1>1 DEF Launched, Alive
<1>5. /\ seen[a].status = "running" /\ seen[a].pid \in Launched /\ ~First(code[a], "spawned")
      /\ GoodCode(a, Rest(a)) /\ Rest(a) # <<>> /\ Head(Rest(a)) \in Reads
      /\ \A S : Reaches(Rest(a), S) => Reaches(code[a], S)
  BY <1>1, AtInstruction, OwnCode DEF Looking, First
<1>6. a \in Users /\ Reaches(Rest(a), UserOnly) => Busy(a)
  BY <1>5, BusyIs DEF BusyWith
<1>7. CASE c = <<>>
  <2>1. (\A i : ~First(c, i)) /\ ~BusyWith(c) /\ ~Reaches(c, {"work", "complete"})
    BY <1>7, NothingGood, NothingReached
  <2>2. \A p \in Pids : AtWork(p)' => AtWork(p)
    BY <1>3, <1>4, <2>1, WorkStays
  <2> QED BY <1>1, <1>3, <1>4, <1>5, <2>1, <2>2, LookingAdvance, CalmAdvance
<1>8. CASE c = Reconcile \o Rest(a) /\ ~PidIsRunning(seen[a].pid)
  <2>1. /\ First(c, "fail") /\ c # NotSpawned
        /\ \A S : "fail" \notin S /\ Reaches(c, S) => Reaches(Rest(a), S)
    BY <1>5, <1>8, AgainGood DEF Reconcile
  <2>2. Looking'
    BY <1>1, <1>3, <1>4, <2>1, LookingAdvance DEF First
  <2>3. \A p \in Pids : AtWork(p)' => AtWork(p)
    BY <1>3, <1>4, <1>5, <2>1, WorkStays
  <2> SUFFICES ASSUME Calm PROVE Calm'
    BY <2>2
  <2>4. a \in Users /\ BusyWith(c) => \A v \in Users \ {a} : ~Busy(v)
    <3>1. "fail" \notin UserOnly
      BY DEF UserOnly
    <3> QED BY <1>6, <2>1, <3>1 DEF Calm, OneBusy, BusyWith
  <2>5. ASSUME NEW p \in Pids, AtWork(p)' PROVE FALSE
    <3>1. AtWork(p) /\ p \in Launched
      BY <2>3, <2>5, WorkerStarted
    <3>2. p = seen[a].pid
      BY <1>5, <3>1 DEF Calm, OneStarted
    <3> QED BY <1>8, <3>1, <3>2 DEF AtWork, Alive, PidIsRunning
  <2>6. \A i \in {"spawned", "launch", "queue", "cancel", "signal"} : ~First(c, i)
    BY <2>1 DEF First
  <2> QED BY <1>1, <1>3, <1>4, <1>5, <2>3, <2>4, <2>5, <2>6, CalmAdvance
<1>9. CASE c = Tail(Rest(a)) /\ Wanted(Head(Rest(a)), seen[a])
  <2>1. /\ \A i : First(c, i) => Head(Rest(a)) \in Leads(i)
        /\ \A S : Reaches(c, S) => Reaches(Rest(a), S)
    BY <1>5, <1>9, TailGood
  <2>2. \A i \in {"check", "fail", "cancel", "spawned", "launch", "queue"} : ~First(c, i)
    <3>1. Head(Rest(a)) \notin {"getStartable", "getAwaiting", "signal"}
      BY <1>5, <1>9 DEF Wanted, Reads
    <3> QED BY <2>1, <3>1 DEF Leads
  <2>3. Looking'
    BY <1>1, <1>3, <1>4, <2>2, LookingAdvance
  <2>4. \A p \in Pids : AtWork(p)' => AtWork(p)
    BY <1>3, <1>4, <1>5, <2>1, WorkStays
  <2> SUFFICES ASSUME Calm PROVE Calm'
    BY <2>3
  <2>5. a \in Users /\ BusyWith(c) => \A v \in Users \ {a} : ~Busy(v)
    <3>1. c # NotSpawned
      BY <2>2 DEF First, NotSpawned
    <3> QED BY <1>6, <2>1, <3>1 DEF Calm, OneBusy, BusyWith
  <2>6. First(c, "signal") => \A p \in Pids : AtWork(p)' => seen'[a].pid = p
    BY <1>3, <1>5, <2>4, WorkerStarted DEF Calm, OneStarted
  <2> QED BY <1>1, <1>3, <1>4, <1>5, <2>2, <2>4, <2>5, <2>6, CalmAdvance
<1> QED BY <1>2, <1>7, <1>8, <1>9

\* The worker that a cancel has read is the one that works, and works no more.
LEMMA SignalCalm ==
  ASSUME JobsInv, Looking, NEW u \in Users, Signal(u)
  PROVE  Looking' /\ (Calm => Calm')
<1> DEFINE p == seen[u].pid
           c == Rest(u)
<1>1. /\ code[u] # <<>> /\ Head(code[u]) = "signal" /\ UNCHANGED <<row, child, parent>>
      /\ worker' = IF Alive(p) THEN [worker EXCEPT ![p] = Ended(p)] ELSE worker
      /\ code' = [a \in Actors |-> IF a = u THEN Rest(u) ELSE IF a = p THEN <<>> ELSE code[a]]
      /\ seen' = [a \in Actors |-> IF a \in {u, p} THEN NoRow ELSE seen[a]]
  BY DEF Signal, At
<1>2. u \in Actors /\ u \notin Pids /\ u # p /\ p \in Pids \cup {0}
  BY TypesOf, UsersAreNotPids DEF Actors, Row
<1>3. /\ code'[u] = c
      /\ \A b \in Actors \ {u} : \/ code'[b] = code[b] /\ seen'[b] = seen[b]
                                 \/ b \in Pids /\ b = p /\ code'[b] = <<>>
  <2>1. \A b \in Actors \ {u} : b = p => b \in Pids
    BY <1>2, UsersAreNotPids DEF Actors
  <2> QED BY <1>1, <1>2, <2>1
<1>4. /\ Launched' = Launched
      /\ \A q \in Pids : /\ Alive(q)' => Alive(q) /\ q # p
                         /\ Alive(q) /\ q # p => Alive(q)'
  BY <1>1, TypesOf DEF Alive, Ended, Launched
<1>5. /\ \A i : First(c, i) => "signal" \in Leads(i)
      /\ \A S : Reaches(c, S) => Reaches(code[u], S)
      /\ BusyWith(c) => Busy(u)
  BY <1>1, <1>2, OwnCode
<1>6. \A i \in {"check", "fail", "spawned", "launch", "queue", "signal"} : ~First(c, i)
  BY <1>5 DEF Leads
<1>7. \A q \in Pids : Alive(q) /\ code'[q] # <<>> => Alive(q)'
  BY <1>1, <1>2, <1>4 DEF Actors
<1> HIDE DEF c, p
<1>8. Looking'
  BY <1>2, <1>3, <1>4, <1>6, <1>7, LookingAdvance
<1>9. \A q \in Pids : AtWork(q)' => AtWork(q)
  BY <1>2, <1>3, <1>4, <1>5, WorkStays
<1> SUFFICES ASSUME Calm PROVE Calm'
  BY <1>8
<1>10. ASSUME NEW q \in Pids, AtWork(q)' PROVE FALSE
  <2>1. AtWork(q) /\ q # p
    BY <1>4, <1>9, <1>10 DEF AtWork
  <2> QED BY <1>1, <2>1 DEF Calm, WorkKnown, First, p
<1>11. BusyWith(c) => \A v \in Users \ {u} : ~Busy(v)
  BY <1>5 DEF Calm, OneBusy
<1>12. ~First(code[u], "spawned")
  BY <1>1 DEF First
<1> QED BY <1>1, <1>2, <1>3, <1>4, <1>6, <1>9, <1>10, <1>11, <1>12, CalmAdvance

\* What the process does next is in its script.
LEMMA ScriptCalm ==
  ASSUME JobsInv, Looking, NEW a \in Actors, code[a] # <<>>, Head(code[a]) # "spawned", NEW c, Then(a, c),
         UNCHANGED <<row, seen, worker>>,
         Reaches(c, {"work", "complete"}) => Reaches(code[a], {"work", "complete"}),
         \A i \in {"check", "spawned", "launch", "queue", "cancel", "signal"} : ~First(c, i),
         Calm /\ a \in Users => Busy(a),
         First(c, "fail") => ~Reaches(c, {"work", "complete"}),
         Calm /\ a \in Users => Launched = {} /\ c = NotSpawned
  PROVE  Looking' /\ (Calm => Calm')
<1>1. code'[a] = c /\ \A b \in Actors \ {a} : code'[b] = code[b] /\ seen'[b] = seen[b]
  BY TypesOf DEF Then
<1>2. Launched' = Launched /\ \A p \in Pids : Alive(p)' <=> Alive(p)
  BY DEF Launched, Alive
<1>3. Looking'
  BY <1>1, <1>2, LookingAdvance
<1>4. \A p \in Pids : AtWork(p)' => AtWork(p)
  BY <1>1, <1>2, WorkStays
<1> SUFFICES ASSUME Calm PROVE Calm'
  BY <1>3
<1>5. ASSUME First(c, "fail"), NEW p \in Pids, AtWork(p)' PROVE FALSE
  <2>1. p \in Launched
    BY <1>4, <1>5, WorkerStarted
  <2>2. a \in Pids /\ a \in Launched
    BY <2>1, AtInstruction DEF Actors
  <2>3. p = a
    BY <2>1, <2>2 DEF Calm, OneStarted
  <2> QED BY <1>1, <1>5, <2>3 DEF AtWork, Reaches
<1>6. Launched = {} => a \in Users /\ c = NotSpawned
  BY AtInstruction DEF Actors
<1>7. a \in Users => \A v \in Users \ {a} : ~Busy(v)
  BY DEF Calm, OneBusy
<1> QED BY <1>1, <1>2, <1>4, <1>5, <1>6, <1>7, CalmAdvance DEF First

\* What the scripts of a command and of a worker begin with, and what is in them.
LEMMA ScriptsBegin ==
  /\ \A c \in {Start, Cancel, Approve, Approve \o Start, <<"get">>} : c # <<>> /\ Head(c) \in Reads
  /\ Head(Worker) \in {"getUncancelled", "work"} /\ Head(Complete) = "complete"
  /\ Head(Fail) = "fail" /\ Head(Spawned) = "spawned" /\ Head(NotSpawned) = "fail"
  /\ Head(Delete) = "delete"
  /\ \A c \in {Spawned, NotSpawned, Fail, Start, Cancel, Approve, Approve \o Start, Delete, <<"get">>} :
       ~Reaches(c, {"work", "complete"})
  /\ ~BusyWith(<<"get">>)
<1>1. Approve \o Start # <<>> /\ Head(Approve \o Start) \in Reads
  BY ApproveStart DEF Reads
<1>2. \A c \in {Start, Cancel, Approve, <<"get">>} : c # <<>> /\ Head(c) \in Reads
  BY DEF Start, Cancel, Approve, Reads
<1>3. Head(Worker) \in {"getUncancelled", "work"} /\ Head(Complete) = "complete"
  BY DEF Worker, Complete
<1>4. /\ Head(Fail) = "fail" /\ Head(Spawned) = "spawned" /\ Head(NotSpawned) = "fail"
      /\ Head(Delete) = "delete"
  BY DEF Fail, Spawned, NotSpawned, Delete
<1>5. \A c \in {Spawned, NotSpawned, Fail, Delete, <<"get">>} : ~Reaches(c, {"work", "complete"})
  BY DEF Reaches, Spawned, NotSpawned, Fail, Delete
<1>7. \A c \in {Start, Approve, Approve \o Start} : ~Reaches(c, {"work", "complete"})
  BY ApproveStart DEF Reaches, Start, Approve
<1>8. ~Reaches(Cancel, {"work", "complete"})
  BY DEF Reaches, Cancel
<1>6. ~BusyWith(<<"get">>)
  BY DEF BusyWith, Reaches, UserOnly, NotSpawned
<1> QED BY <1>1, <1>2, <1>3, <1>4, <1>5, <1>6, <1>7, <1>8

LEMMA LaunchFailsCalm ==
  ASSUME JobsInv, Looking, NEW u \in Users, LaunchFails(u)
  PROVE  Looking' /\ (Calm => Calm')
<1>1. /\ code[u] # <<>> /\ Head(code[u]) = "launch" /\ Then(u, NotSpawned)
      /\ UNCHANGED <<row, seen, worker>> /\ u \in Actors
  BY DEF LaunchFails, At, Actors
<1>2. Busy(u) /\ (Calm => Launched = {})
  BY <1>1, OwnCode, BusyIs DEF BusyWith, UserOnly, Calm, NotYet, First
<1> QED BY <1>1, <1>2, ScriptsBegin, ScriptCalm DEF First

LEMMA WorkersCalm ==
  ASSUME JobsInv, Looking, NEW p \in Pids, Work(p) \/ Finish(p) \/ Exits(p)
  PROVE  Looking' /\ (Calm => Calm')
<1>1. p \in Actors /\ p \notin Users
  BY UsersAreNotPids DEF Actors
<1>2. CASE Work(p)
  <2>1. /\ code[p] # <<>> /\ Head(code[p]) = "work" /\ UNCHANGED <<row, seen, worker>>
        /\ Reaches(code[p], {"work", "complete"})
    BY <1>1, <1>2, OwnCode DEF Work, At
  <2>2. CASE Then(p, Complete)
    BY <1>1, <2>1, <2>2, ScriptsBegin, ScriptCalm DEF First
  <2>3. CASE Then(p, Fail)
    BY <1>1, <2>1, <2>3, ScriptsBegin, ScriptCalm DEF First
  <2> QED BY <1>2, <2>2, <2>3 DEF Work
<1>3. CASE Finish(p)
  <2>1. /\ code[p] # <<>> /\ Head(code[p]) = "finish" /\ UNCHANGED <<row, seen, worker>>
    BY <1>3 DEF Finish, At
  <2>2. CASE Then(p, <<>>)
    BY <1>1, <2>1, <2>2, NothingGood, NothingReached, ScriptCalm
  <2>3. CASE Then(p, Fail)
    BY <1>1, <2>1, <2>3, ScriptsBegin, ScriptCalm DEF First
  <2> QED BY <1>3, <2>2, <2>3 DEF Finish
<1>4. CASE Exits(p)
  <2>1. /\ code[p] = <<>> /\ UNCHANGED <<row, code, seen>> /\ worker' = [worker EXCEPT ![p] = Ended(p)]
        /\ worker[p] = "alive"
    BY <1>4 DEF Exits, Alive
  <2>2. Launched' = Launched /\ (\A q \in Pids : Alive(q)' => Alive(q)) /\ \A q \in Pids \ {p} : Alive(q) => Alive(q)'
    BY <2>1, TypesOf DEF Alive, Ended, Launched
  <2>3. \A i : ~First(code[p], i)
    BY <2>1 DEF First
  <2>4. \A q \in Pids : Alive(q) /\ code'[q] # <<>> => Alive(q)'
    BY <2>1, <2>2
  <2>5. Looking'
    BY <1>1, <2>1, <2>2, <2>3, <2>4, LookingAdvance
  <2>6. \A q \in Pids : AtWork(q)' => AtWork(q)
    BY <1>1, <2>1, <2>2, WorkStays
  <2>7. Calm => Calm'
    BY <1>1, <2>1, <2>2, <2>3, <2>6, CalmAdvance
  <2> QED BY <2>5, <2>7
<1> QED BY <1>2, <1>3, <1>4

\* What an UPDATE or a DELETE makes of the row, whatever the row has become.
LEMMA WriteCalm ==
  ASSUME JobsInv, Looking, NEW a \in Actors, Write(a)
  PROVE  Looking' /\ (Calm => Calm')
<1> DEFINE i == Head(code[a])
           c == Rest(a)
<1>1. /\ code[a] # <<>> /\ i \in Writes /\ Then(a, Rest(a)) /\ UNCHANGED <<seen, worker, parent>>
      /\ row.status = "pruned" => row' = row
      /\ row.status # "pruned" => /\ row'.status = Becomes(i)
                                  /\ i \in {"spawned", "mark"} => row'.pid = PidWritten(a, i)
  BY TypesOf DEF Write, Row
<1>2. code'[a] = c /\ \A b \in Actors \ {a} : code'[b] = code[b] /\ seen'[b] = seen[b]
  BY <1>1, TypesOf DEF Then
<1>3. Launched' = Launched /\ \A p \in Pids : Alive(p)' <=> Alive(p)
  BY <1>1 DEF Launched, Alive
<1>4. /\ \A x : First(c, x) => i \in Leads(x)
      /\ \A S : Reaches(c, S) => Reaches(code[a], S)
      /\ a \in Users /\ BusyWith(c) => Busy(a)
      /\ i \in UserOnly => a \in Users /\ Busy(a)
      /\ i \in WorkerOnly => a \in Pids /\ a \in Launched
      /\ i = "complete" => ~Reaches(c, {"work", "complete"})
  BY <1>1, OwnCode, AtInstruction, BusyIs DEF BusyWith, Actors
<1>5. \A x \in {"check", "fail", "spawned", "launch", "queue", "cancel", "signal"} : ~First(c, x)
  BY <1>1, <1>4 DEF Leads, Writes
<1>6. First(code[a], i)
  BY <1>1 DEF First
<1> HIDE DEF i, c
<1>7. Looking'
  BY <1>1, <1>2, <1>3, <1>5, LookingAdvance
<1>8. \A p \in Pids : AtWork(p)' => AtWork(p)
  BY <1>2, <1>3, <1>4, WorkStays
<1> SUFFICES ASSUME Calm PROVE Calm'
  BY <1>7
<1>9. \A u \in Users : Busy(u)' => Busy(u)
  <2> SUFFICES ASSUME NEW u \in Users, Busy(u)' PROVE Busy(u)
    OBVIOUS
  <2>1. u \in Actors /\ BusyWith(code'[u])
    BY DEF Actors, Busy, BusyWith, Reaches, UserOnly
  <2> QED BY <1>2, <1>4, <2>1, BusyIs
<1>10. \A u \in Users, x \in {"fail", "spawned", "launch", "queue", "cancel", "signal"} :
         First(code'[u], x) => u # a /\ code'[u] = code[u] /\ seen'[u] = seen[u]
  BY <1>2, <1>5 DEF Actors
<1>11. OneBusy' /\ OneStarted' /\ NotYet'
  BY <1>3, <1>9, <1>10 DEF Calm, OneBusy, OneStarted, NotYet
<1>12. Recorded'
  <2> SUFFICES ASSUME row'.status \in {"awaiting_approval", "queued"}, Launched # {} PROVE FALSE
    BY <1>3 DEF Recorded
  <2>1. i = "queue"
    BY <1>1 DEF Becomes, Writes
  <2> QED BY <1>4, <1>6, <2>1 DEF Calm, NotYet, UserOnly
<1>13. RowOpen'
  <2> SUFFICES ASSUME NEW u \in Users, NEW x \in {"launch", "spawned"}, First(code'[u], x)
               PROVE  row'.status \notin {"cancelled", "pruned"}
    BY DEF RowOpen
  <2>1. u # a /\ First(code[u], x)
    BY <1>10
  <2>2. row.status # "pruned"
    BY <2>1 DEF Calm, RowOpen
  <2>3. i \notin {"cancel", "delete"}
    BY <1>4, <2>1, NobodyElse DEF Calm, UserOnly
  <2> QED BY <1>1, <2>2, <2>3 DEF Becomes, Writes
<1>14. FailsLate'
  <2> SUFFICES ASSUME NEW b \in Actors, First(code'[b], "fail")
               PROVE  /\ \A p \in Pids : ~AtWork(p)'
                      /\ Launched' = {} => b \in Users /\ code'[b] = NotSpawned
    BY DEF FailsLate
  <2>1. code'[b] = code[b]
    BY <1>2, <1>5
  <2> QED BY <1>3, <1>8, <2>1 DEF Calm, FailsLate
<1>15. WorkKnown'
  <2> SUFFICES ASSUME NEW p \in Pids, AtWork(p)'
               PROVE  /\ \/ row'.status = "running" /\ row'.pid = p
                         \/ row'.status = "pruned"
                         \/ \E u \in Users : First(code'[u], "spawned")
                      /\ \A u \in Users : ~First(code'[u], "cancel") /\ (First(code'[u], "signal") => seen'[u].pid = p)
    BY DEF WorkKnown
  <2>1. AtWork(p) /\ p \in Launched
    BY <1>8, WorkerStarted
  <2>2. \A u \in Users : ~First(code'[u], "cancel") /\ (First(code'[u], "signal") => seen'[u].pid = p)
    BY <1>10, <2>1 DEF Calm, WorkKnown
  <2>3. ASSUME row.status = "pruned" \/ i = "delete" PROVE row'.status = "pruned"
    BY <1>1, <2>3 DEF Becomes, Writes
  <2> SUFFICES ASSUME row.status # "pruned", i # "delete"
               PROVE  \/ row'.status = "running" /\ row'.pid = p
                      \/ \E u \in Users : First(code'[u], "spawned")
    BY <2>2, <2>3
  <2>4. i \notin {"queue", "cancel", "fail"}
    BY <1>4, <1>6, <2>1 DEF Calm, NotYet, WorkKnown, FailsLate, UserOnly
  <2>5. i # "complete"
    <3>1. ASSUME i = "complete" PROVE p = a
      BY <1>4, <2>1, <3>1 DEF Calm, OneStarted, WorkerOnly
    <3> QED BY <1>2, <1>4, <3>1 DEF AtWork, Reaches
  <2>6. ASSUME i \in {"spawned", "mark"} PROVE row'.status = "running" /\ row'.pid = p
    <3>1. i = "spawned" => child[a] \in Launched
      BY <1>4, <1>6 DEF JobsInv, WorkersStarted, UserOnly
    <3>2. PidWritten(a, i) \in Launched
      BY <1>4, <2>6, <3>1 DEF PidWritten, WorkerOnly
    <3> QED BY <1>1, <2>1, <2>6, <3>2 DEF Becomes, Calm, OneStarted
  <2> QED BY <1>1, <2>4, <2>5, <2>6 DEF Writes
<1> QED BY <1>11, <1>12, <1>13, <1>14, <1>15 DEF Calm

\* A launch is the only one, and it is in time.
LEMMA LaunchCalm ==
  ASSUME JobsInv, Looking, NEW u \in Users, Launch(u)
  PROVE  Looking' /\ (Calm => Calm')
<1> DEFINE p == Cardinality(Launched) + 1
           Reaped(q) == worker[q] = "zombie" /\ parent[q] = u
<1>1. /\ code[u] # <<>> /\ Head(code[u]) = "launch" /\ UNCHANGED <<row, seen>>
      /\ worker' = [q \in Pids |-> IF q = p THEN "alive" ELSE IF Reaped(q) THEN "gone" ELSE worker[q]]
      /\ code' = [code EXCEPT ![u] = Spawned, ![p] = Worker]
  BY DEF Launch, At
<1>2. p \in Pids /\ p \notin Launched /\ p # u /\ p \in Actors /\ u \in Actors /\ u \notin Pids
  BY <1>1, NextNumber, UsersAreNotPids
<1> HIDE DEF p
<1>3. Launched' = Launched \cup {p}
  BY <1>1, <1>2 DEF Launched
<1>4. /\ \A b \in Actors : b # u /\ b # p => code'[b] = code[b]
      /\ code'[p] = Worker /\ code'[u] = Spawned /\ seen' = seen
  BY <1>1, <1>2, TypesOf
<1>5. \A q \in Pids : Alive(q) \/ q = p => Alive(q)'
  BY <1>1 DEF Alive
<1>6. \A x \in {"check", "fail", "launch", "queue", "cancel", "signal"} :
        ~First(code'[p], x) /\ ~First(code'[u], x)
  BY <1>4, ScriptsBegin DEF First
<1>7. Looking'
  <2>1. ASSUME NEW q \in Pids, code'[q] # <<>> PROVE Alive(q)'
    BY <1>2, <1>4, <1>5, <2>1 DEF Looking, Actors
  <2>2. ASSUME NEW a \in Actors, First(code'[a], "check")
        PROVE  seen'[a].status = "running" /\ seen'[a].pid \in Launched'
    BY <1>3, <1>4, <1>6, <2>2 DEF Looking
  <2> QED BY <2>1, <2>2 DEF Looking
<1> SUFFICES ASSUME Calm PROVE Calm'
  BY <1>7
<1>8. Launched = {} /\ Launched' = {p}
  BY <1>1, <1>3 DEF Calm, NotYet, First
<1>9. Busy(u) /\ \A v \in Users \ {u} : ~Busy(v) /\ \A i \in UserOnly : ~First(code[v], i)
  <2>1. Busy(u)
    BY <1>1, <1>2, OwnCode, BusyIs DEF BusyWith, UserOnly
  <2> QED BY <2>1, NobodyElse DEF Calm
<1>10. \A v \in Users \ {u} : v \in Actors /\ v # p /\ code'[v] = code[v]
  BY <1>2, <1>4, UsersAreNotPids DEF Actors
<1>11. OneBusy'
  <2>1. \A v \in Users \ {u} : ~Busy(v)'
    BY <1>9, <1>10 DEF Busy
  <2> QED BY <2>1 DEF OneBusy
<1>12. OneStarted' /\ NotYet'
  BY <1>6, <1>8, <1>9, <1>10 DEF OneStarted, NotYet, UserOnly
<1>13. Recorded'
  BY <1>4, ScriptsBegin DEF Recorded, First, Spawned
<1>14. RowOpen'
  <2>1. row' = row /\ row.status \notin {"cancelled", "pruned"}
    BY <1>1 DEF Calm, RowOpen, First
  <2> QED BY <2>1 DEF RowOpen
<1>15. FailsLate'
  <2> SUFFICES ASSUME NEW b \in Actors, First(code'[b], "fail") PROVE FALSE
    BY DEF FailsLate
  <2>1. b # u /\ b # p /\ First(code[b], "fail")
    BY <1>4, <1>6
  <2>2. b \in Users /\ code[b] = NotSpawned
    BY <1>8, <2>1 DEF Calm, FailsLate
  <2> QED BY <1>9, <2>1, <2>2 DEF Busy
<1>16. WorkKnown'
  <2>1. First(code'[u], "spawned")
    BY <1>4, ScriptsBegin DEF First, Spawned
  <2>2. \A v \in Users : ~First(code'[v], "cancel") /\ ~First(code'[v], "signal")
    BY <1>6, <1>9, <1>10 DEF UserOnly
  <2> QED BY <2>1, <2>2 DEF WorkKnown
<1> QED BY <1>11, <1>12, <1>13, <1>14, <1>15, <1>16 DEF Calm

\* A command that begins, while none is under way if it is to write.
LEMMA BeginCalm ==
  ASSUME JobsInv, Looking, NEW u \in Users, NEW c, Begin(u, c),
         \A i : First(c, i) => i \in Reads \cup {"delete"}, ~Reaches(c, {"work", "complete"}),
         BusyWith(c) => \A v \in Users \ {u} : ~Busy(v)
  PROVE  Looking' /\ (Calm => Calm')
<1>1. /\ code[u] = <<>> /\ UNCHANGED <<row, seen, worker>> /\ u \in Actors
      /\ code'[u] = c /\ \A b \in Actors \ {u} : code'[b] = code[b] /\ seen'[b] = seen[b]
  BY TypesOf DEF Begin, Idle, Then, Actors
<1>2. Launched' = Launched /\ \A p \in Pids : Alive(p)' <=> Alive(p)
  BY <1>1 DEF Launched, Alive
<1>3. /\ \A i \in {"check", "fail", "spawned", "launch", "queue", "cancel", "signal"} : ~First(c, i)
      /\ \A i : ~First(code[u], i)
  BY <1>1 DEF First, Reads
<1>4. Looking'
  BY <1>1, <1>2, <1>3, UsersAreNotPids, LookingAdvance
<1>5. \A p \in Pids : AtWork(p)' => AtWork(p)
  <2>1. \A p \in Pids : p \in Actors /\ p # u
    BY UsersAreNotPids DEF Actors
  <2> QED BY <1>1, <1>2, <2>1 DEF AtWork
<1> QED BY <1>1, <1>2, <1>3, <1>4, <1>5, CalmAdvance

LEMMA CommandCalm ==
  ASSUME JobsInv, CalmInv, NEW u \in Users, Command(u) PROVE CalmInv'
<1>1. Counted(u)
  BY DEF Command, StartJob, CancelJob, ApproveJob, Prune
<1>2. PICK c : /\ Begin(u, c) /\ ~Reaches(c, {"work", "complete"})
               /\ \A i : First(c, i) => i \in Reads \cup {"delete"}
  <2>1. PICK c \in {Start, Cancel, Approve, Approve \o Start, Delete} : Begin(u, c)
    BY DEF Command, StartJob, CancelJob, ApproveJob, Prune
  <2>2. \A i : First(c, i) => i \in Reads \cup {"delete"}
    BY ScriptsBegin DEF First
  <2> QED BY <2>1, <2>2, ScriptsBegin
<1>3. CASE \E v \in Users \ {u} : Busy(v)
  <2>1. disturbed'
    BY <1>1, <1>3 DEF Counted
  <2>2. /\ code[u] = <<>> /\ UNCHANGED <<seen, worker>> /\ u \in Actors
        /\ code'[u] = c /\ \A b \in Actors \ {u} : code'[b] = code[b] /\ seen'[b] = seen[b]
    BY <1>2, TypesOf DEF Begin, Idle, Then, Actors
  <2>3. Launched' = Launched /\ (\A p \in Pids : Alive(p)' <=> Alive(p)) /\ ~First(c, "check")
    BY <1>2, <2>2 DEF Launched, Alive, First, Reads
  <2>4. Looking'
    BY <2>2, <2>3, UsersAreNotPids, LookingAdvance DEF CalmInv
  <2> QED BY <2>1, <2>4 DEF CalmInv
<1>4. CASE ~\E v \in Users \ {u} : Busy(v)
  <2>1. Looking' /\ (Calm => Calm')
    BY <1>2, <1>4, BeginCalm DEF CalmInv
  <2>2. disturbed' = disturbed
    BY <1>1, <1>4, TypesOf DEF Counted
  <2> QED BY <2>1, <2>2 DEF CalmInv
<1> QED BY <1>3, <1>4

\* A process that is gone has nothing left to execute.
LEMMA GoneCalm ==
  ASSUME JobsInv, CalmInv,
         \/ \E u \in Users : Exit(u) \/ UserDies(u)
         \/ \E p \in Pids : WorkerDies(p)
  PROVE  CalmInv'
<1>1. ASSUME NEW u \in Users, Leaves(u)
      PROVE  Launched' = Launched /\ \A p \in Pids : Alive(p)' <=> Alive(p)
  BY <1>1, TypesOf DEF Leaves, Launched, Alive
<1>2. ASSUME NEW u \in Users, Exit(u) PROVE CalmInv'
  <2>1. UNCHANGED <<row, code, seen, disturbed>> /\ Leaves(u)
    BY <1>2 DEF Exit
  <2>2. Launched' = Launched /\ \A p \in Pids : Alive(p)' <=> Alive(p)
    BY <1>1, <2>1
  <2>3. \A p \in Pids : AtWork(p)' <=> AtWork(p)
    BY <2>1, <2>2 DEF AtWork
  <2>4. Looking'
    BY <2>1, <2>2 DEF CalmInv, Looking
  <2>5. Calm => Calm'
    BY <2>1, <2>2, <2>3 DEF Calm, OneBusy, OneStarted, NotYet, Recorded, RowOpen, FailsLate, WorkKnown, Busy
  <2> QED BY <2>1, <2>4, <2>5 DEF CalmInv
<1>3. ASSUME NEW u \in Users, UserDies(u) PROVE CalmInv'
  <2>1. disturbed' /\ Keep(u, <<>>, NoRow) /\ Leaves(u) /\ u \in Actors /\ u \notin Pids
    BY <1>3, UsersAreNotPids DEF UserDies, Actors
  <2>2. Launched' = Launched /\ \A p \in Pids : Alive(p)' <=> Alive(p)
    BY <1>1, <2>1
  <2>3. Looking'
    BY <2>1, <2>2, Kept, NothingGood, LookingAdvance DEF CalmInv
  <2> QED BY <2>1, <2>3 DEF CalmInv
<1>4. ASSUME NEW p \in Pids, WorkerDies(p) PROVE CalmInv'
  <2>1. /\ Keep(p, <<>>, NoRow) /\ UNCHANGED <<row, disturbed>> /\ Alive(p) /\ p \in Actors /\ p \notin Users
        /\ worker' = [worker EXCEPT ![p] = Ended(p)]
    BY <1>4, UsersAreNotPids DEF WorkerDies, Actors
  <2>2. /\ code'[p] = <<>> /\ \A b \in Actors \ {p} : code'[b] = code[b] /\ seen'[b] = seen[b]
    BY <2>1, Kept
  <2>3. /\ Launched' = Launched /\ (\A q \in Pids : Alive(q)' => Alive(q))
        /\ \A q \in Pids \ {p} : Alive(q) => Alive(q)'
    BY <2>1, TypesOf DEF Alive, Ended, Launched
  <2>4. \A q \in Pids : Alive(q) /\ code'[q] # <<>> => Alive(q)'
    BY <2>2, <2>3
  <2>5. Looking'
    BY <2>1, <2>2, <2>3, <2>4, NothingGood, LookingAdvance DEF CalmInv
  <2>6. \A q \in Pids : AtWork(q)' => AtWork(q)
    BY <2>1, <2>2, <2>3, NothingReached, WorkStays
  <2>7. ~First(code[p], "spawned")
    BY <2>1, OwnCode DEF First, UserOnly
  <2>8. Calm => Calm'
    BY <2>1, <2>2, <2>3, <2>6, <2>7, NothingGood, CalmAdvance
  <2> QED BY <2>1, <2>5, <2>8 DEF CalmInv
<1> QED BY <1>2, <1>3, <1>4

LEMMA NextCalm == JobsInv /\ CalmInv /\ [Next]_vars => CalmInv'
<1> SUFFICES ASSUME JobsInv, CalmInv, [Next]_vars PROVE CalmInv'
  OBVIOUS
<1>1. CASE \E a \in Actors : Step(a)
  <2>1. PICK a \in Actors : Step(a)
    BY <1>1
  <2>2. disturbed' = disturbed
    BY <2>1 DEF Step
  <2>3. Looking
    BY DEF CalmInv
  <2>4. Looking' /\ (Calm => Calm')
    BY <2>1, <2>3, ReadCalm, CheckCalm, WriteCalm, SignalCalm, LaunchCalm, LaunchFailsCalm, WorkersCalm DEF Step
  <2> QED BY <2>2, <2>4 DEF CalmInv
<1>2. CASE \E u \in Users : Command(u)
  BY <1>2, CommandCalm
<1>3. CASE \E u \in Users : Poll(u)
  <2>1. PICK u \in Users : Begin(u, <<"get">>) /\ UNCHANGED disturbed
    BY <1>3 DEF Poll
  <2>2. Looking' /\ (Calm => Calm')
    BY <2>1, ScriptsBegin, BeginCalm DEF CalmInv, First
  <2> QED BY <2>1, <2>2 DEF CalmInv
<1>4. CASE (\E u \in Users : Exit(u) \/ UserDies(u)) \/ (\E p \in Pids : WorkerDies(p))
  BY <1>4, GoneCalm
<1>5. CASE UNCHANGED vars
  <2>1. UNCHANGED <<row, code, seen, worker, disturbed>>
    BY <1>5 DEF vars, jobVars
  <2> QED BY <2>1 DEF CalmInv, Looking, Calm, OneBusy, OneStarted, NotYet, Recorded, RowOpen, FailsLate, WorkKnown,
                      Busy, AtWork, Alive, Launched
<1> QED BY <1>1, <1>2, <1>3, <1>4, <1>5 DEF Next

LEMMA InitCalm == Init => CalmInv
<1> SUFFICES ASSUME Init PROVE CalmInv
  OBVIOUS
<1>1. (\A a \in Actors : code[a] = <<>>) /\ Launched = {}
  BY DEF Init, Launched
<1>2. (\A a \in Actors : \A i : ~First(code[a], i)) /\ (\A u \in Users : ~Busy(u)) /\ \A p \in Pids : ~AtWork(p)
  BY <1>1, NothingGood, NothingReached, BusyIs DEF Actors
<1> QED BY <1>1, <1>2 DEF CalmInv, Looking, Calm, OneBusy, OneStarted, NotYet, Recorded, RowOpen, FailsLate, WorkKnown,
                          Actors

THEOREM CalmInvariant == Spec => []CalmInv
BY InitCalm, NextCalm, JobsInvariant, PTL DEF Spec

\* Unless commands overlapped or one died half-way, no second worker is started, however
\* often start, approve, cancel and a poll follow each other (task_manager.py:
\* start_task_process, approve_task; agent_runner.py: start_agent).
THEOREM WorkIsDoneOnce == Spec => []OneWorker
<1>1. CalmInv => OneWorker
  <2> SUFFICES ASSUME Calm PROVE Cardinality(Launched) <= 1
    BY DEF CalmInv, OneWorker
  <2>1. CASE Launched = {}
    BY <2>1, FS_EmptySet
  <2>2. ASSUME NEW p \in Launched PROVE Cardinality(Launched) <= 1
    <3>1. Launched = {p}
      BY DEF Calm, OneStarted
    <3> QED BY <3>1, FS_Singleton
  <2> QED BY <2>1, <2>2
<1> QED BY <1>1, CalmInvariant, PTL

\* Unless commands overlapped or one died half-way, a worker of a cancelled row has no work
\* left to do: the cancel read its pid, however the worker and the polls write the row
\* meanwhile (task_manager.py: cancel_task; agent_runner.py: cancel_agent).
THEOREM CancelledWorkStops == Spec => []CancelStopsWork
<1>1. CalmInv => CancelStopsWork
  BY DEF CalmInv, CancelStopsWork, Calm, WorkKnown, RowOpen
<1> QED BY <1>1, CalmInvariant, PTL
=============================================================================
