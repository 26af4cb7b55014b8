--------------------------- MODULE RunStoreProofs ---------------------------
(***************************************************************************)
(* Theorems about RunStore, for every set of processes, runs, events and   *)
(* digests, any number of deaths, and whoever writes to which run.         *)
(***************************************************************************)
EXTENDS RunStore, SequenceTheorems, FiniteSetTheorems, TLAPS

Jobs == {Idle} \cup AppendJobs \cup MetaJobs \cup PutJobs

PutSteps == {"exists", "open", "write", "replace", "insert"}

\* A put job works on the CAS or on the mirror of its own run.
DirsOK == \A p \in Procs : job[p].step \in PutSteps => job[p].dir \in {Cas, job[p].run}

\* The lines of a sequence after an append.
LEMMA LinesAppend ==
  ASSUME NEW S, NEW s \in Seq(S), NEW e \in S
  PROVE  Lines(Append(s, e)) = Lines(s) \cup {e}
<1>1. DOMAIN s = 1..Len(s) /\ DOMAIN Append(s, e) = 1..(Len(s) + 1) /\ Len(s) \in Nat
  OBVIOUS
<1>2. \A i \in 1..Len(s) : Append(s, e)[i] = s[i]
  OBVIOUS
<1>3. Append(s, e)[Len(s) + 1] = e
  OBVIOUS
<1>4. 1..(Len(s) + 1) = 1..Len(s) \cup {Len(s) + 1}
  BY <1>1
<1> QED
  BY <1>1, <1>2, <1>3, <1>4 DEF Lines

\* The lines of an empty sequence.
LEMMA LinesEmpty == Lines(<<>>) = {}
  BY DEF Lines

\* Where the next step of a put job puts it.
LEMMA PlacedType ==
  ASSUME NEW j \in PutJobs, j.dir \in {Cas, j.run}
  PROVE  Placed(j) \in PutJobs /\ Place(j) \in Places
  BY DEF PutJobs, Placed, Place, Places, Dirs

\* A job whose temporary file was renamed is still a job.
LEMMA FollowType ==
  ASSUME NEW j \in Jobs, NEW pl
  PROVE  FollowRename(j, pl) \in Jobs
<1>1. CASE j.step = "write" /\ Place(j) = pl
  <2>1. j \in PutJobs
    BY <1>1 DEF Jobs, Idle, AppendJobs, MetaJobs, PutJobs
  <2> QED
    BY <1>1, <2>1 DEF FollowRename, Jobs, PutJobs
<1>2. CASE ~(j.step = "write" /\ Place(j) = pl)
  BY <1>2 DEF FollowRename
<1> QED
  BY <1>1, <1>2

-----------------------------------------------------------------------------
(* A job's fields by its step.                                             *)

\* The step of a job tells which kind of job it is.
LEMMA JobByStep ==
  ASSUME NEW j \in Jobs
  PROVE  /\ j.step = "append" => j \in AppendJobs
         /\ j.step = "meta" => j \in MetaJobs
         /\ j.step \in PutSteps => j \in PutJobs
  BY DEF PutSteps, Jobs, Idle, AppendJobs, MetaJobs, PutJobs

\* Type correctness of RunStore: whatever the interleaving and the deaths, the
\* tables hold rows, the mirror event ids, and every process is in one of the
\* operations of the store.
THEOREM TypeCorrect == Spec => [](TypeOK /\ DirsOK)
<1>1. Init => TypeOK /\ DirsOK
  BY StoreAssumption DEF Init, TypeOK, DirsOK, PutSteps, File, Idle
<1>2. TypeOK /\ DirsOK /\ [Next]_vars => TypeOK' /\ DirsOK'
  <2> SUFFICES ASSUME TypeOK, DirsOK, [Next]_vars PROVE TypeOK' /\ DirsOK'
    OBVIOUS
  <2>0. job \in [Procs -> Jobs]
    BY DEF TypeOK, Jobs
  <2>1. ASSUME NEW p \in Procs, NEW r \in Runs, NEW v \in RowValues, CommitRow(p, r, v)
        PROVE  TypeOK' /\ DirsOK'
    BY <2>1 DEF CommitRow, MetaJobs, TypeOK, DirsOK, PutSteps
  <2>2. ASSUME NEW p \in Procs, NEW r \in Runs, NEW e \in EventIds, CommitEvent(p, r, e)
        PROVE  TypeOK' /\ DirsOK'
    BY <2>2 DEF CommitEvent, AppendJobs, TypeOK, DirsOK, PutSteps
  <2>3. ASSUME NEW p \in Procs, NEW r \in Runs, NEW d \in Digests, StartPut(p, r, d)
        PROVE  TypeOK' /\ DirsOK'
    BY <2>3 DEF StartPut, PutJobs, Dirs, TypeOK, DirsOK, PutSteps
  <2>4. ASSUME NEW p \in Procs, WriteRunMeta(p)
        PROVE  TypeOK' /\ DirsOK'
    <3>1. job[p] \in MetaJobs
      BY <2>0, <2>4, JobByStep DEF WriteRunMeta
    <3> QED
      BY <2>4, <3>1 DEF WriteRunMeta, MetaJobs, TypeOK, DirsOK, PutSteps, Idle
  <2>5. ASSUME NEW p \in Procs, AppendEventFile(p)
        PROVE  TypeOK' /\ DirsOK'
    <3>1. job[p] \in AppendJobs
      BY <2>0, <2>5, JobByStep DEF AppendEventFile
    <3> QED
      BY <2>5, <3>1 DEF AppendEventFile, AppendJobs, TypeOK, DirsOK, PutSteps, Idle
  <2>6. ASSUME NEW p \in Procs, job[p].step \in PutSteps
        PROVE  /\ job[p] \in PutJobs
               /\ job[p].dir \in {Cas, job[p].run}
               /\ Place(job[p]) \in Places
               /\ Placed(job[p]) \in PutJobs
               /\ Placed(job[p]).dir = job[p].run
    <3>1. job[p] \in PutJobs
      BY <2>0, <2>6, JobByStep
    <3>2. job[p].dir \in {Cas, job[p].run}
      BY <2>6 DEF DirsOK
    <3> QED
      BY <3>1, <3>2, PlacedType DEF Placed, PutJobs
  <2>7. ASSUME NEW p \in Procs, BlobExists(p)
        PROVE  TypeOK' /\ DirsOK'
    <3>1. /\ job[p] \in PutJobs
          /\ Placed(job[p]) \in PutJobs
          /\ Placed(job[p]).dir = job[p].run
      BY <2>6, <2>7 DEF BlobExists, PutSteps
    <3>2. Placed(job[p]).run = job[p].run
      BY <3>1 DEF Placed, PutJobs
    <3> QED
      BY <2>7, <3>1, <3>2 DEF BlobExists, TypeOK, DirsOK
  <2>8. ASSUME NEW p \in Procs, BlobMissing(p)
        PROVE  TypeOK' /\ DirsOK'
    <3>1. job[p] \in PutJobs
      BY <2>6, <2>8 DEF BlobMissing, PutSteps
    <3> DEFINE j == [job[p] EXCEPT !.step = "open"]
    <3>2. job' = [job EXCEPT ![p] = j] /\ UNCHANGED <<row, meta, events, mirror, rows, path, temp, crashes>>
      BY <2>8 DEF BlobMissing
    <3>3. j \in PutJobs /\ j.dir = job[p].dir /\ j.run = job[p].run
      BY <3>1 DEF PutJobs
    <3>4. job[p].dir \in {Cas, job[p].run}
      BY <2>6, <2>8 DEF BlobMissing, PutSteps
    <3> HIDE DEF j
    <3> QED
      BY <3>2, <3>3, <3>4 DEF TypeOK, DirsOK
  <2>9. ASSUME NEW p \in Procs, OpenTemp(p)
        PROVE  TypeOK' /\ DirsOK'
    <3>1. job[p] \in PutJobs /\ Place(job[p]) \in Places
      BY <2>6, <2>9 DEF OpenTemp, PutSteps
    <3> DEFINE j == [job[p] EXCEPT !.step = "write", !.fd = "temp"]
    <3>2. job' = [job EXCEPT ![p] = j] /\ UNCHANGED <<row, meta, events, mirror, rows, path, crashes>>
      BY <2>9 DEF OpenTemp
    <3>3. j \in PutJobs /\ j.dir = job[p].dir /\ j.run = job[p].run
      BY <3>1 DEF PutJobs
    <3>4. job[p].dir \in {Cas, job[p].run}
      BY <2>6, <2>9 DEF OpenTemp, PutSteps
    <3>5. temp' \in [Places -> File]
      BY <2>9, <3>1 DEF OpenTemp, TypeOK, File
    <3> HIDE DEF j
    <3> QED
      BY <3>2, <3>3, <3>4, <3>5 DEF TypeOK, DirsOK
  <2>10. ASSUME NEW p \in Procs, WriteBytes(p)
         PROVE  TypeOK' /\ DirsOK'
    <3>1. job[p] \in PutJobs /\ Place(job[p]) \in Places
      BY <2>6, <2>10 DEF WriteBytes, PutSteps
    <3>2. path' \in [Places -> File] /\ temp' \in [Places -> File]
      BY <2>10, <3>1 DEF WriteBytes, TypeOK, File
    <3> QED
      BY <2>6, <2>10, <3>1, <3>2, ZenonT(30) DEF WriteBytes, TypeOK, DirsOK, PutJobs, PutSteps
  <2>11. ASSUME NEW p \in Procs, ReplacePath(p)
         PROVE  TypeOK' /\ DirsOK'
    <3>1. /\ job[p] \in PutJobs
          /\ Placed(job[p]) \in PutJobs
          /\ Placed(job[p]).dir = job[p].run
          /\ Place(job[p]) \in Places
      BY <2>6, <2>11 DEF ReplacePath, PutSteps
    <3>2. Placed(job[p]).run = job[p].run
      BY <3>1 DEF Placed, PutJobs
    <3>3. path' \in [Places -> File] /\ temp' \in [Places -> File]
      BY <2>11, <3>1 DEF ReplacePath, TypeOK, File
    <3>4. ASSUME NEW q \in Procs, NEW pl
          PROVE  /\ FollowRename(job[q], pl) \in Jobs
                 /\ FollowRename(job[q], pl).step = job[q].step
                 /\ job[q].step \in PutSteps =>
                      /\ FollowRename(job[q], pl).run = job[q].run
                      /\ FollowRename(job[q], pl).dir = job[q].dir
      BY <2>0, FollowType, JobByStep DEF FollowRename, PutJobs, PutSteps
    <3>5. job' \in [Procs -> Jobs]
      BY <2>11, <3>1, <3>4 DEF ReplacePath, Jobs
    <3>6. ASSUME NEW q \in Procs, job'[q].step \in PutSteps
          PROVE  job'[q].dir \in {Cas, job'[q].run}
      BY <2>11, <3>1, <3>2, <3>4, <3>6 DEF ReplacePath, DirsOK
    <3> QED
      BY <2>11, <3>3, <3>5, <3>6 DEF ReplacePath, TypeOK, DirsOK, Jobs
  <2>12. ASSUME NEW p \in Procs, ReplaceRaises(p)
         PROVE  TypeOK' /\ DirsOK'
    BY <2>12 DEF ReplaceRaises, TypeOK, DirsOK, PutSteps, Idle
  <2>13. ASSUME NEW p \in Procs, InsertRow(p)
         PROVE  TypeOK' /\ DirsOK'
    <3>1. job[p] \in PutJobs
      BY <2>6, <2>13 DEF InsertRow, PutSteps
    <3> QED
      BY <2>13, <3>1 DEF InsertRow, TypeOK, DirsOK, PutJobs, PutSteps, Idle
  <2>14. ASSUME NEW p \in Procs, Crash(p)
         PROVE  TypeOK' /\ DirsOK'
    BY <2>14, StoreAssumption DEF Crash, TypeOK, DirsOK, PutSteps, Idle
  <2>15. CASE UNCHANGED vars
    BY <2>15 DEF vars, TypeOK, DirsOK
  <2> QED
    BY <2>1, <2>2, <2>3, <2>4, <2>5, <2>7, <2>8, <2>9, <2>10, <2>11, <2>12, <2>13, <2>14, <2>15
    DEF Next, Start, Continue
<1> QED
  BY <1>1, <1>2, PTL DEF Spec

-----------------------------------------------------------------------------
(* The event stream.                                                       *)

\* Steps that commit no event and write no line leave both alone, and start
\* no append.
LEMMA StreamFrame ==
  ASSUME TypeOK, [Next]_vars
  PROVE  \/ \E p \in Procs, r \in Runs, e \in EventIds : CommitEvent(p, r, e)
         \/ \E p \in Procs : AppendEventFile(p)
         \/ /\ UNCHANGED <<events, mirror>>
            /\ \A q \in Procs : job'[q].step = "append" => job'[q] = job[q]
<1> DEFINE Frame == /\ UNCHANGED <<events, mirror>>
                    /\ \A q \in Procs : job'[q].step = "append" => job'[q] = job[q]
<1>0. job \in [Procs -> Jobs]
  BY DEF TypeOK, Jobs
<1>1. ASSUME NEW p \in Procs, NEW r \in Runs, NEW v \in RowValues, CommitRow(p, r, v)
      PROVE  Frame
  BY <1>0, <1>1 DEF CommitRow
<1>2. ASSUME NEW p \in Procs, NEW r \in Runs, NEW d \in Digests, StartPut(p, r, d)
      PROVE  Frame
  BY <1>0, <1>2 DEF StartPut
<1>3. ASSUME NEW p \in Procs, WriteRunMeta(p) \/ ReplaceRaises(p) \/ InsertRow(p) \/ Crash(p)
      PROVE  Frame
  BY <1>0, <1>3 DEF WriteRunMeta, ReplaceRaises, InsertRow, Crash, Idle
<1>4. ASSUME NEW p \in Procs, job[p].step \in PutSteps
      PROVE  Placed(job[p]).step \in {"exists", "insert"}
  BY <1>0, <1>4, JobByStep DEF Placed, PutJobs
<1>5. ASSUME NEW p \in Procs, BlobExists(p)
      PROVE  Frame
  BY <1>0, <1>4, <1>5 DEF BlobExists, PutSteps
<1>6. ASSUME NEW p \in Procs, BlobMissing(p) \/ OpenTemp(p) \/ WriteBytes(p)
      PROVE  Frame
  <2>1. job[p] \in PutJobs
    BY <1>0, <1>6, JobByStep DEF BlobMissing, OpenTemp, WriteBytes, PutSteps
  <2>2. job'[p].step \in {"open", "write", "replace"} /\ \A q \in Procs \ {p} : job'[q] = job[q]
    BY <1>0, <1>6, <2>1 DEF BlobMissing, OpenTemp, WriteBytes, PutJobs
  <2> QED
    BY <1>6, <2>2 DEF BlobMissing, OpenTemp, WriteBytes
<1>7. ASSUME NEW p \in Procs, ReplacePath(p)
      PROVE  Frame
  <2>1. job'[p] = Placed(job[p])
    BY <1>7 DEF ReplacePath
  <2>2. ASSUME NEW q \in Procs, q # p, job'[q].step = "append"
        PROVE  job'[q] = job[q]
    <3>1. job'[q] = FollowRename(job[q], Place(job[p]))
      BY <1>7, <2>2 DEF ReplacePath
    <3>2. CASE job[q].step = "write"
      BY <1>0, <2>2, <3>1, <3>2, JobByStep DEF FollowRename, PutSteps, PutJobs
    <3>3. CASE job[q].step # "write"
      BY <3>1, <3>3 DEF FollowRename
    <3> QED
      BY <3>2, <3>3
  <2> QED
    BY <1>4, <1>7, <2>1, <2>2 DEF ReplacePath, PutSteps
<1>8. CASE UNCHANGED vars
  BY <1>8 DEF vars
<1> QED
  BY <1>1, <1>2, <1>3, <1>5, <1>6, <1>7, <1>8 DEF Next, Start, Continue

\* An event on its way to events.jsonl is committed and not yet there, and no
\* other process carries it.
InFlightOK ==
  /\ \A p \in Procs :
       job[p].step = "append" =>
         job[p].event \in Lines(events[job[p].run]) \ Lines(mirror[job[p].run])
  /\ \A p, q \in Procs :
       job[p].step = "append" /\ job[q].step = "append" /\ p # q => job[p].event # job[q].event

StreamInv == MirrorSound /\ InFlightOK

\* The invariant is inductive: an event is new when it is committed, so it
\* differs from every line and from every event in flight.
LEMMA StreamStep ==
  ASSUME TypeOK, StreamInv, [Next]_vars
  PROVE  StreamInv'
<1>0. job \in [Procs -> Jobs]
  BY DEF TypeOK, Jobs
<1>1. ASSUME NEW p \in Procs, NEW r \in Runs, NEW e \in EventIds, CommitEvent(p, r, e)
      PROVE  StreamInv'
  <2>1. Lines(events'[r]) = Lines(events[r]) \cup {e} /\ \A q \in Runs \ {r} : events'[q] = events[q]
    BY <1>1, LinesAppend DEF CommitEvent, TypeOK
  <2>2. mirror' = mirror /\ \A q \in Runs : e \notin Lines(events[q])
    BY <1>1 DEF CommitEvent
  <2>3. job'[p] = [step |-> "append", run |-> r, event |-> e] /\ \A q \in Procs \ {p} : job'[q] = job[q]
    BY <1>0, <1>1 DEF CommitEvent
  <2>4. MirrorSound'
    BY <2>1, <2>2 DEF StreamInv, MirrorSound
  <2>5. ASSUME NEW q \in Procs, job'[q].step = "append", q # p
        PROVE  /\ job[q] \in AppendJobs /\ job'[q] = job[q]
               /\ job[q].event \in Lines(events[job[q].run]) \ Lines(mirror[job[q].run])
    BY <1>0, <2>3, <2>5, JobByStep DEF StreamInv, InFlightOK
  <2>6. ASSUME NEW q \in Procs, job'[q].step = "append"
        PROVE  job'[q].event \in Lines(events'[job'[q].run]) \ Lines(mirror'[job'[q].run])
    <3>1. CASE q = p
      BY <2>1, <2>2, <2>3, <3>1 DEF StreamInv, MirrorSound
    <3>2. CASE q # p
      BY <2>1, <2>2, <2>5, <2>6, <3>2 DEF AppendJobs
    <3> QED
      BY <3>1, <3>2
  <2>7. ASSUME NEW q1 \in Procs, NEW q2 \in Procs, q1 # q2,
               job'[q1].step = "append", job'[q2].step = "append"
        PROVE  job'[q1].event # job'[q2].event
    <3>1. CASE q1 # p /\ q2 # p
      BY <2>5, <2>7, <3>1 DEF StreamInv, InFlightOK
    <3>2. ASSUME NEW q \in Procs, q # p, job'[q].step = "append"
          PROVE  job'[q].event # e
      BY <2>2, <2>5, <3>2 DEF AppendJobs
    <3> QED
      BY <2>3, <2>7, <3>1, <3>2
  <2> QED
    BY <2>4, <2>6, <2>7 DEF StreamInv, InFlightOK
<1>2. ASSUME NEW p \in Procs, AppendEventFile(p)
      PROVE  StreamInv'
  <2> DEFINE r == job[p].run  e == job[p].event
  <2>1. job[p] \in AppendJobs /\ r \in Runs /\ e \in EventIds
    BY <1>0, <1>2, JobByStep DEF AppendEventFile, AppendJobs
  <2>2. /\ mirror' = [mirror EXCEPT ![r] = Append(@, e)]
        /\ events' = events
        /\ job' = [job EXCEPT ![p] = Idle]
        /\ job[p].step = "append"
    BY <1>2 DEF AppendEventFile
  <2>3. e \in Lines(events[r]) \ Lines(mirror[r])
    BY <2>2 DEF StreamInv, InFlightOK
  <2> HIDE DEF r, e
  <2>4. /\ mirror'[r] = Append(mirror[r], e) /\ mirror[r] \in Seq(EventIds)
        /\ \A q \in Runs \ {r} : mirror'[q] = mirror[q]
    BY <2>1, <2>2 DEF TypeOK
  <2>5. Lines(mirror'[r]) = Lines(mirror[r]) \cup {e}
    BY <2>1, <2>4, LinesAppend
  <2>6. ASSUME NEW i \in DOMAIN mirror'[r], NEW k \in DOMAIN mirror'[r], mirror'[r][i] = mirror'[r][k]
        PROVE  i = k
    <3>1. /\ DOMAIN mirror[r] = 1..Len(mirror[r]) /\ Len(mirror[r]) \in Nat
          /\ DOMAIN mirror'[r] = 1..(Len(mirror[r]) + 1)
      BY <2>1, <2>4
    <3>2. /\ \A n \in DOMAIN mirror[r] : mirror'[r][n] = mirror[r][n] /\ mirror[r][n] # e
          /\ mirror'[r][Len(mirror[r]) + 1] = e
      BY <2>1, <2>3, <2>4 DEF Lines
    <3>3. \A n, m \in DOMAIN mirror[r] : mirror[r][n] = mirror[r][m] => n = m
      BY <2>1 DEF StreamInv, MirrorSound
    <3>4. \A n \in DOMAIN mirror'[r] : n \in DOMAIN mirror[r] \/ n = Len(mirror[r]) + 1
      BY <3>1
    <3> QED
      BY <2>6, <3>2, <3>3, <3>4
  <2>7. MirrorSound'
    <3>1. ASSUME NEW q \in Runs
          PROVE  Lines(mirror'[q]) \subseteq Lines(events[q])
      <4>1. Lines(mirror[q]) \subseteq Lines(events[q])
        BY <3>1 DEF StreamInv, MirrorSound
      <4> QED
        BY <2>3, <2>4, <2>5, <4>1
    <3>2. ASSUME NEW q \in Runs \ {r}
          PROVE  \A i, k \in DOMAIN mirror'[q] : mirror'[q][i] = mirror'[q][k] => i = k
      BY <2>4, <3>2 DEF StreamInv, MirrorSound
    <3> QED
      BY <2>2, <2>6, <3>1, <3>2 DEF MirrorSound
  <2>8. ASSUME NEW q \in Procs, job'[q].step = "append"
        PROVE  q # p /\ job'[q] = job[q] /\ job[q] \in AppendJobs
    BY <1>0, <2>2, <2>8, JobByStep DEF Idle
  <2>9. ASSUME NEW q \in Procs, job'[q].step = "append"
        PROVE  job[q].event \in Lines(events[job[q].run]) \ Lines(mirror'[job[q].run])
    <3>1. job[q].event \in Lines(events[job[q].run]) \ Lines(mirror[job[q].run])
      BY <2>8, <2>9 DEF StreamInv, InFlightOK
    <3>2. job[q].event # e
      BY <2>2, <2>8, <2>9 DEF StreamInv, InFlightOK, e
    <3> QED
      BY <2>4, <2>5, <2>8, <2>9, <3>1, <3>2 DEF AppendJobs
  <2> QED
    BY <2>2, <2>7, <2>8, <2>9 DEF StreamInv, InFlightOK
<1>3. CASE /\ UNCHANGED <<events, mirror>>
           /\ \A q \in Procs : job'[q].step = "append" => job'[q] = job[q]
  BY <1>3 DEF StreamInv, MirrorSound, InFlightOK
<1> QED
  BY <1>1, <1>2, <1>3, StreamFrame

\* events.jsonl never holds a line that is not an event committed for its run,
\* and never holds an event twice, whoever writes and whoever dies.
THEOREM MirrorIsSound == Spec => []MirrorSound
<1>1. Init => StreamInv
  BY LinesEmpty DEF Init, StreamInv, MirrorSound, InFlightOK, Idle
<1>2. TypeOK /\ StreamInv /\ [Next]_vars => StreamInv'
  BY StreamStep
<1>3. StreamInv => MirrorSound
  BY DEF StreamInv
<1> QED
  BY <1>1, <1>2, <1>3, TypeCorrect, PTL DEF Spec

\* RunStore implements EventStream: a commit is Commit, a line is Mirror, and
\* no other step, no death included, is visible to it.
THEOREM StreamRefinement == Spec => ImplementsEventStream
<1> DEFINE mirrored == [r \in Runs |-> Lines(mirror[r])]
<1>1. Init => Stream!Init
  BY LinesEmpty DEF Init, Stream!Init
<1>2. TypeOK /\ StreamInv /\ [Next]_vars => [Stream!Next]_<<events, mirrored>>
  <2> SUFFICES ASSUME TypeOK, StreamInv, [Next]_vars
               PROVE  [Stream!Next]_<<events, mirrored>>
    OBVIOUS
  <2>1. \A s : Stream!Lines(s) = Lines(s)
    BY DEF Stream!Lines, Lines
  <2>2. ASSUME NEW p \in Procs, NEW r \in Runs, NEW e \in EventIds, CommitEvent(p, r, e)
        PROVE  Stream!Commit(r, e)
    BY <2>1, <2>2 DEF CommitEvent, Stream!Commit
  <2>3. ASSUME NEW p \in Procs, AppendEventFile(p)
        PROVE  Stream!Mirror(job[p].run, job[p].event)
               /\ job[p].run \in Runs /\ job[p].event \in EventIds
    <3> DEFINE r == job[p].run  e == job[p].event
    <3>1. job[p] \in AppendJobs
      BY <2>3, JobByStep DEF AppendEventFile, TypeOK, Jobs
    <3>2. r \in Runs /\ e \in EventIds
      BY <3>1 DEF AppendJobs
    <3>3. e \in Lines(events[r]) \ Lines(mirror[r])
      BY <2>3 DEF AppendEventFile, StreamInv, InFlightOK
    <3>4. mirror' = [mirror EXCEPT ![r] = Append(@, e)] /\ events' = events
      BY <2>3 DEF AppendEventFile
    <3> HIDE DEF r, e
    <3>5. Lines(mirror'[r]) = Lines(mirror[r]) \cup {e}
      BY <3>2, <3>4, LinesAppend DEF TypeOK
    <3>6. \A q \in Runs \ {r} : mirror'[q] = mirror[q]
      BY <3>4 DEF TypeOK
    <3>7. mirrored' = [mirrored EXCEPT ![r] = @ \cup {e}]
      BY <3>2, <3>5, <3>6
    <3>8. e \in Stream!Lines(events[r]) \ mirrored[r]
      BY <2>1, <3>2, <3>3
    <3>9. Stream!Mirror(r, e)
      BY <3>4, <3>7, <3>8 DEF Stream!Mirror
    <3> QED
      BY <3>2, <3>9 DEF r, e
  <2>4. CASE UNCHANGED <<events, mirror>>
    BY <2>4
  <2> QED
    BY <2>2, <2>3, <2>4, StreamFrame DEF Stream!Next
<1>3. Init => StreamInv
  BY LinesEmpty DEF Init, StreamInv, MirrorSound, InFlightOK, Idle
<1>4. TypeOK /\ StreamInv /\ [Next]_vars => StreamInv'
  BY StreamStep
<1> QED
  BY <1>1, <1>2, <1>3, <1>4, TypeCorrect, PTL DEF Spec, ImplementsEventStream, Stream!Spec

-----------------------------------------------------------------------------
(* Blobs.                                                                  *)

\* A process in put_artifact after a step: it has just started, or it is at
\* the place it was at, or that place has a blob now and it moved on.
PutMoved(q) ==
  \/ job'[q].dir = Cas /\ job'[q].step # "insert"
  \/ /\ job[q].step \in PutSteps
     /\ job'[q].run = job[q].run /\ job'[q].digest = job[q].digest /\ job'[q].dir = job[q].dir
     /\ job'[q].step = "insert" => job[q].step = "insert"
  \/ /\ job[q].step \in PutSteps
     /\ job'[q] = Placed(job[q])
     /\ path'[Place(job[q])] # "absent"

\* No step removes a published blob.
LEMMA PathsStay ==
  ASSUME TypeOK, DirsOK, [Next]_vars, NEW pl \in Places, path[pl] # "absent"
  PROVE  path'[pl] # "absent"
<1>1. ASSUME NEW p \in Procs, WriteBytes(p)
      PROVE  path'[pl] # "absent"
  BY <1>1 DEF WriteBytes, TypeOK
<1>2. ASSUME NEW p \in Procs, ReplacePath(p)
      PROVE  path'[pl] # "absent"
  BY <1>2 DEF ReplacePath, TypeOK
<1>3. CASE UNCHANGED path
  BY <1>3
<1> QED
  BY <1>1, <1>2, <1>3, ZenonT(30)
  DEF Next, Start, Continue, vars, CommitRow, CommitEvent, StartPut, WriteRunMeta, AppendEventFile,
      BlobExists, BlobMissing, OpenTemp, ReplaceRaises, InsertRow, Crash

\* Every step moves every put job so.
LEMMA PutFrame ==
  ASSUME TypeOK, DirsOK, [Next]_vars, NEW q \in Procs, job'[q].step \in PutSteps
  PROVE  PutMoved(q)
<1>0. job \in [Procs -> Jobs]
  BY DEF TypeOK, Jobs
<1>1. CASE job'[q] = job[q]
  BY <1>1 DEF PutMoved
<1>2. ASSUME NEW p \in Procs, NEW r \in Runs, NEW d \in Digests, StartPut(p, r, d)
      PROVE  PutMoved(q)
  <2>1. CASE p = q
    BY <1>0, <1>2, <2>1 DEF StartPut, PutMoved
  <2>2. CASE p # q
    BY <1>0, <1>1, <1>2, <2>2 DEF StartPut
  <2> QED
    BY <2>1, <2>2
<1>3. ASSUME NEW p \in Procs, BlobExists(p)
      PROVE  PutMoved(q)
  <2>1. CASE p = q
    BY <1>0, <1>3, <2>1 DEF BlobExists, PutMoved, PutSteps
  <2>2. CASE p # q
    BY <1>0, <1>1, <1>3, <2>2 DEF BlobExists
  <2> QED
    BY <2>1, <2>2
<1>4. ASSUME NEW p \in Procs, BlobMissing(p) \/ OpenTemp(p) \/ WriteBytes(p)
      PROVE  PutMoved(q)
  <2>1. CASE p = q
    <3>1. job[q] \in PutJobs /\ job[q].step \in PutSteps
      BY <1>0, <1>4, <2>1, JobByStep DEF BlobMissing, OpenTemp, WriteBytes, PutSteps
    <3>2. /\ job'[q].step # "insert"
          /\ job'[q].run = job[q].run /\ job'[q].digest = job[q].digest /\ job'[q].dir = job[q].dir
      BY <1>0, <1>4, <2>1, <3>1 DEF BlobMissing, OpenTemp, WriteBytes, PutJobs
    <3> QED
      BY <3>1, <3>2 DEF PutMoved
  <2>2. CASE p # q
    BY <1>0, <1>1, <1>4, <2>2 DEF BlobMissing, OpenTemp, WriteBytes
  <2> QED
    BY <2>1, <2>2
<1>5. ASSUME NEW p \in Procs, ReplacePath(p)
      PROVE  PutMoved(q)
  <2>1. CASE p = q
    <3>1. job[q].step \in PutSteps /\ Place(job[q]) \in Places
      BY <1>0, <1>5, <2>1, JobByStep, PlacedType DEF ReplacePath, PutSteps, DirsOK
    <3> QED
      BY <1>5, <2>1, <3>1 DEF ReplacePath, PutMoved, TypeOK
  <2>2. CASE p # q /\ job[q].step = "write"
    <3>1. job[q] \in PutJobs
      BY <1>0, <2>2, JobByStep DEF PutSteps
    <3>2. job'[q] = FollowRename(job[q], Place(job[p]))
      BY <1>5, <2>2 DEF ReplacePath
    <3> QED
      BY <2>2, <3>1, <3>2 DEF FollowRename, PutJobs, PutMoved, PutSteps
  <2>3. CASE p # q /\ job[q].step # "write"
    BY <1>1, <1>5, <2>3 DEF ReplacePath, FollowRename
  <2> QED
    BY <2>1, <2>2, <2>3
<1>6. ASSUME NEW p \in Procs,
             \/ WriteRunMeta(p) \/ AppendEventFile(p) \/ ReplaceRaises(p) \/ InsertRow(p) \/ Crash(p)
      PROVE  PutMoved(q)
  <2>1. job' = [job EXCEPT ![p] = Idle]
    BY <1>6 DEF WriteRunMeta, AppendEventFile, ReplaceRaises, InsertRow, Crash
  <2> QED
    BY <1>0, <1>1, <2>1 DEF Idle, PutSteps
<1>7. ASSUME NEW p \in Procs, NEW r \in Runs, NEW v \in RowValues, CommitRow(p, r, v)
      PROVE  PutMoved(q)
  BY <1>0, <1>1, <1>7 DEF CommitRow, PutSteps
<1>8. ASSUME NEW p \in Procs, NEW r \in Runs, NEW e \in EventIds, CommitEvent(p, r, e)
      PROVE  PutMoved(q)
  BY <1>0, <1>1, <1>8 DEF CommitEvent, PutSteps
<1>9. CASE UNCHANGED vars
  BY <1>1, <1>9 DEF vars
<1> QED
  BY <1>2, <1>3, <1>4, <1>5, <1>6, <1>7, <1>8, <1>9 DEF Next, Start, Continue

\* A put job that is at the run's mirror has its blob in the CAS, and one that
\* is about to insert the row has it in both.
PutsOK ==
  \A p \in Procs :
    job[p].step \in PutSteps =>
      /\ job[p].dir # Cas => path[<<Cas, job[p].digest>>] # "absent"
      /\ job[p].step = "insert" => job[p].dir # Cas /\ path[<<job[p].run, job[p].digest>>] # "absent"

BlobInv == RowsHaveBlobs /\ PutsOK

\* A row is inserted by a job that has passed both places.
LEMMA BlobStep ==
  ASSUME TypeOK, TypeOK', DirsOK, DirsOK', BlobInv, [Next]_vars
  PROVE  BlobInv'
<1>0. job \in [Procs -> Jobs] /\ job' \in [Procs -> Jobs]
  BY DEF TypeOK, Jobs
<1>1. ASSUME NEW r \in Runs, NEW d \in Digests
      PROVE  <<Cas, d>> \in Places /\ <<r, d>> \in Places
  BY DEF Places, Dirs
<1>2. RowsHaveBlobs'
  <2> SUFFICES ASSUME NEW r \in Runs, NEW d \in Digests, <<r, d>> \in rows'
               PROVE  path'[<<Cas, d>>] # "absent" /\ path'[<<r, d>>] # "absent"
    BY DEF RowsHaveBlobs
  <2>1. CASE <<r, d>> \in rows
    BY <1>1, <2>1, PathsStay DEF BlobInv, RowsHaveBlobs
  <2>2. ASSUME NEW p \in Procs, InsertRow(p), <<r, d>> \notin rows
        PROVE  path'[<<Cas, d>>] # "absent" /\ path'[<<r, d>>] # "absent"
    <3>1. job[p].run = r /\ job[p].digest = d
      BY <2>2 DEF InsertRow
    <3> QED
      BY <1>1, <2>2, <3>1, PathsStay DEF InsertRow, BlobInv, PutsOK, PutSteps
  <2>3. CASE rows' = rows
    BY <2>1, <2>3
  <2> QED
    BY <2>1, <2>2, <2>3, ZenonT(30)
    DEF Next, Start, Continue, vars, CommitRow, CommitEvent, StartPut, WriteRunMeta, AppendEventFile,
        BlobExists, BlobMissing, OpenTemp, WriteBytes, ReplacePath, ReplaceRaises, Crash
<1>3. PutsOK'
  <2> SUFFICES ASSUME NEW q \in Procs, job'[q].step \in PutSteps
               PROVE  /\ job'[q].dir # Cas => path'[<<Cas, job'[q].digest>>] # "absent"
                      /\ job'[q].step = "insert" =>
                           job'[q].dir # Cas /\ path'[<<job'[q].run, job'[q].digest>>] # "absent"
    BY DEF PutsOK
  <2>1. job'[q] \in PutJobs /\ job'[q].run \in Runs /\ job'[q].digest \in Digests
    BY <1>0, JobByStep DEF PutJobs
  <2>2. CASE job'[q].dir = Cas /\ job'[q].step # "insert"
    BY <2>2
  <2>3. CASE /\ job[q].step \in PutSteps
             /\ job'[q].run = job[q].run /\ job'[q].digest = job[q].digest /\ job'[q].dir = job[q].dir
             /\ job'[q].step = "insert" => job[q].step = "insert"
    BY <1>1, <2>1, <2>3, PathsStay DEF BlobInv, PutsOK
  <2>4. CASE /\ job[q].step \in PutSteps
             /\ job'[q] = Placed(job[q])
             /\ path'[Place(job[q])] # "absent"
    <3>1. job[q] \in PutJobs /\ job[q].dir \in {Cas, job[q].run} /\ job[q].run # Cas
      BY <1>0, <2>4, JobByStep, StoreAssumption DEF DirsOK, PutJobs
    <3>2. CASE job[q].dir = Cas
      <4>1. job'[q].step = "exists" /\ job'[q].digest = job[q].digest
        BY <2>4, <3>1, <3>2 DEF Placed, PutJobs
      <4> QED
        BY <2>4, <3>2, <4>1 DEF Place
    <3>3. CASE job[q].dir # Cas
      <4>1. job'[q].digest = job[q].digest /\ job'[q].run = job[q].run /\ job'[q].dir = job[q].dir
        BY <2>4, <3>1, <3>3 DEF Placed, PutJobs
      <4>2. path'[<<Cas, job[q].digest>>] # "absent"
        BY <1>1, <2>1, <2>4, <3>3, <4>1, PathsStay DEF BlobInv, PutsOK
      <4> QED
        BY <2>4, <3>1, <3>3, <4>1, <4>2 DEF Place
    <3> QED
      BY <3>2, <3>3
  <2> QED
    BY <2>2, <2>3, <2>4, PutFrame DEF PutMoved
<1> QED
  BY <1>2, <1>3 DEF BlobInv

\* An artifact row's blob was published in the CAS and in its run's mirror, at
\* any death and with any number of writers of the same digest.
THEOREM RowsAreBacked == Spec => []RowsHaveBlobs
<1>1. Init => BlobInv
  BY DEF Init, BlobInv, RowsHaveBlobs, PutsOK, PutSteps, Idle
<1>2. /\ TypeOK /\ DirsOK /\ TypeOK' /\ DirsOK' /\ BlobInv /\ [Next]_vars
      => BlobInv'
  BY BlobStep
<1>3. BlobInv => RowsHaveBlobs
  BY DEF BlobInv
<1> QED
  BY <1>1, <1>2, <1>3, TypeCorrect, PTL DEF Spec

\* Events and lines are only appended, rows stay, published blobs stay.
THEOREM NothingWithdrawn == Spec => AppendOnly
<1> DEFINE Grows == /\ \A r \in Runs : Prefix(events[r], events'[r]) /\ Prefix(mirror[r], mirror'[r])
                    /\ rows \subseteq rows'
                    /\ \A pl \in Places : path[pl] # "absent" => path'[pl] # "absent"
<1>1. TypeOK /\ DirsOK /\ [Next]_vars => [Grows]_vars
  <2> SUFFICES ASSUME TypeOK, DirsOK, [Next]_vars PROVE Grows
    OBVIOUS
  <2>1. ASSUME NEW S, NEW s \in Seq(S), NEW e \in S
        PROVE  Prefix(s, s) /\ Prefix(s, Append(s, e))
    BY <2>1 DEF Prefix
  <2>2. \A r \in Runs : Prefix(events[r], events'[r]) /\ Prefix(mirror[r], mirror'[r])
    <3>1. ASSUME NEW p \in Procs, NEW r \in Runs, NEW e \in EventIds, CommitEvent(p, r, e), NEW q \in Runs
          PROVE  Prefix(events[q], events'[q]) /\ Prefix(mirror[q], mirror'[q])
      <4>1. events'[q] = events[q] \/ events'[q] = Append(events[q], e)
        BY <3>1 DEF CommitEvent, TypeOK
      <4> QED
        BY <2>1, <3>1, <4>1 DEF CommitEvent, TypeOK
    <3>2. ASSUME NEW p \in Procs, AppendEventFile(p), NEW q \in Runs
          PROVE  Prefix(events[q], events'[q]) /\ Prefix(mirror[q], mirror'[q])
      <4>1. job[p].event \in EventIds
        BY <3>2, JobByStep DEF AppendEventFile, TypeOK, Jobs, AppendJobs
      <4>2. mirror'[q] = mirror[q] \/ mirror'[q] = Append(mirror[q], job[p].event)
        BY <3>2 DEF AppendEventFile, TypeOK
      <4> QED
        BY <2>1, <3>2, <4>1, <4>2 DEF AppendEventFile, TypeOK
    <3>3. ASSUME UNCHANGED <<events, mirror>>, NEW q \in Runs
          PROVE  Prefix(events[q], events'[q]) /\ Prefix(mirror[q], mirror'[q])
      <4>1. events[q] \in Seq(EventIds) /\ mirror[q] \in Seq(EventIds)
        BY DEF TypeOK
      <4>2. events'[q] = events[q] /\ mirror'[q] = mirror[q]
        BY <3>3
      <4> QED
        BY <4>1, <4>2 DEF Prefix
    <3> QED
      BY <3>1, <3>2, <3>3, StreamFrame
  <2>3. rows \subseteq rows'
    BY ZenonT(30) DEF Next, Start, Continue, vars, CommitRow, CommitEvent, StartPut, WriteRunMeta, AppendEventFile,
           BlobExists, BlobMissing, OpenTemp, WriteBytes, ReplacePath, ReplaceRaises, InsertRow, Crash
  <2>4. \A pl \in Places : path[pl] # "absent" => path'[pl] # "absent"
    BY PathsStay
  <2> QED
    BY <2>2, <2>3, <2>4
<1> QED
  BY <1>1, TypeCorrect, PTL DEF Spec, AppendOnly

-----------------------------------------------------------------------------
(* What a run can rely on while nothing dies.                              *)

WritesTo(q, pl, f) == job[q].step = "write" /\ job[q].fd = f /\ Place(job[q]) = pl

\* An incomplete file, under either name, has a writer whose descriptor is on it.
TornInv ==
  crashes = 0 =>
    \A pl \in Places :
      /\ path[pl] = "torn" => \E q \in Procs : WritesTo(q, pl, "path")
      /\ temp[pl] = "torn" => \E q \in Procs : WritesTo(q, pl, "temp")

\* Opening a file is what tears it, writing or replacing it what mends it.
LEMMA TornStep ==
  ASSUME TypeOK, DirsOK, TornInv, [Next]_vars
  PROVE  TornInv'
<1>0. job \in [Procs -> Jobs] /\ crashes \in Nat
  BY StoreAssumption DEF TypeOK, Jobs
<1>1. ASSUME NEW p \in Procs, OpenTemp(p)
      PROVE  TornInv'
  <2>1. job[p] \in PutJobs
    BY <1>0, <1>1, JobByStep DEF OpenTemp, PutSteps
  <2>2. job'[p].step = "write" /\ job'[p].fd = "temp" /\ Place(job'[p]) = Place(job[p])
    BY <1>0, <1>1, <2>1 DEF OpenTemp, PutJobs, Place
  <2>3. \A q \in Procs \ {p} : job'[q] = job[q]
    BY <1>0, <1>1 DEF OpenTemp
  <2>4. \A q \in Procs : \A pl, f : WritesTo(q, pl, f) => WritesTo(q, pl, f)'
    BY <1>1, <2>3 DEF OpenTemp, WritesTo, Place
  <2> PICK at : at = Place(job[p])
    OBVIOUS
  <2>5. \A pl \in Places : temp'[pl] = "torn" => temp[pl] = "torn" \/ pl = at
    BY <1>1 DEF OpenTemp, TypeOK
  <2>6. WritesTo(p, at, "temp")'
    BY <2>2 DEF WritesTo, Place
  <2> QED
    BY <1>1, <2>4, <2>5, <2>6 DEF TornInv, OpenTemp
<1>2. ASSUME NEW p \in Procs, WriteBytes(p)
      PROVE  TornInv'
  <2>1. \A q \in Procs \ {p} : job'[q] = job[q]
    BY <1>0, <1>2 DEF WriteBytes
  <2>2. \A q \in Procs \ {p} : \A pl, f : WritesTo(q, pl, f) => WritesTo(q, pl, f)'
    BY <2>1 DEF WritesTo, Place
  <2>3. ASSUME NEW pl \in Places
        PROVE  /\ path'[pl] = "torn" => path[pl] = "torn" /\ ~WritesTo(p, pl, "path")
               /\ temp'[pl] = "torn" => temp[pl] = "torn" /\ ~WritesTo(p, pl, "temp")
    BY <1>2 DEF WriteBytes, WritesTo, TypeOK
  <2> QED
    BY <1>2, <2>2, <2>3 DEF TornInv, WriteBytes
<1>3. ASSUME NEW p \in Procs, ReplacePath(p)
      PROVE  TornInv'
  <2> PICK at : at = Place(job[p])
    OBVIOUS
  <2>1. ASSUME NEW q \in Procs, NEW pl, NEW f, WritesTo(q, pl, f), pl # at
        PROVE  WritesTo(q, pl, f)'
    BY <1>3, <2>1 DEF ReplacePath, WritesTo, FollowRename, Place
  <2>2. ASSUME NEW q \in Procs, WritesTo(q, at, "temp")
        PROVE  WritesTo(q, at, "path")'
    <3>1. job[q] \in PutJobs /\ q # p
      BY <1>0, <1>3, <2>2, JobByStep DEF ReplacePath, WritesTo, PutSteps
    <3>2. job'[q] = [job[q] EXCEPT !.fd = "path"]
      BY <1>3, <2>2, <3>1 DEF ReplacePath, WritesTo, FollowRename
    <3>3. job'[q].step = "write" /\ job'[q].fd = "path" /\ job'[q].dir = job[q].dir /\ job'[q].digest = job[q].digest
      BY <2>2, <3>1, <3>2 DEF WritesTo, PutJobs
    <3> QED
      BY <2>2, <3>3 DEF WritesTo, Place
  <2>3. /\ path'[at] = "torn" => temp[at] = "torn" \/ at \notin Places
        /\ temp'[at] # "torn" \/ at \notin Places
        /\ \A pl \in Places \ {at} : path'[pl] = path[pl] /\ temp'[pl] = temp[pl]
        /\ crashes' = crashes
    BY <1>3 DEF ReplacePath, TypeOK
  <2> QED
    BY <2>1, <2>2, <2>3 DEF TornInv
<1>4. ASSUME NEW p \in Procs, Crash(p)
      PROVE  TornInv'
  BY <1>0, <1>4 DEF Crash, TornInv
<1>5. CASE /\ UNCHANGED <<path, temp, crashes>>
           /\ \A q \in Procs : job[q].step = "write" => job'[q] = job[q]
  <2>1. \A q \in Procs : \A pl, f : WritesTo(q, pl, f) => WritesTo(q, pl, f)'
    BY <1>5 DEF WritesTo, Place
  <2> QED
    BY <1>5, <2>1 DEF TornInv
<1>6. ASSUME NEW p \in Procs,
             \/ \E r \in Runs, v \in RowValues : CommitRow(p, r, v)
             \/ \E r \in Runs, e \in EventIds : CommitEvent(p, r, e)
             \/ \E r \in Runs, d \in Digests : StartPut(p, r, d)
             \/ WriteRunMeta(p) \/ AppendEventFile(p) \/ BlobExists(p) \/ BlobMissing(p)
             \/ ReplaceRaises(p) \/ InsertRow(p)
      PROVE  TornInv'
  <2>1. job[p].step # "write" /\ UNCHANGED <<path, temp, crashes>>
    BY <1>6 DEF CommitRow, CommitEvent, StartPut, WriteRunMeta, AppendEventFile, BlobExists, BlobMissing,
                ReplaceRaises, InsertRow, Idle
  <2>2. \A q \in Procs \ {p} : job'[q] = job[q]
    BY <1>0, <1>6 DEF CommitRow, CommitEvent, StartPut, WriteRunMeta, AppendEventFile, BlobExists, BlobMissing,
                      ReplaceRaises, InsertRow
  <2> QED
    BY <1>5, <2>1, <2>2
<1>7. CASE UNCHANGED vars
  BY <1>5, <1>7 DEF vars
<1> QED
  BY <1>1, <1>2, <1>3, <1>4, <1>6, <1>7 DEF Next, Start, Continue

\* While nothing dies, whoever reads a torn blob only has to wait for its writer.
THEOREM TornBlobsHaveWriters == Spec => []TornBlobHasWriter
<1>1. Init => TornInv
  BY DEF Init, TornInv
<1>2. TypeOK /\ DirsOK /\ TornInv /\ [Next]_vars => TornInv'
  BY TornStep
<1>3. TornInv => TornBlobHasWriter
  BY DEF TornInv, TornBlobHasWriter, WritesTo
<1> QED
  BY <1>1, <1>2, <1>3, TypeCorrect, PTL DEF Spec

\* The two together: what put_artifact promises of a row's blobs.
THEOREM BlobsAreSound == Spec => []BlobsSound
<1>1. RowsHaveBlobs /\ TornBlobHasWriter => BlobsSound
  BY DEF BlobsSound
<1> QED
  BY <1>1, RowsAreBacked, TornBlobsHaveWriters, PTL

\* A process appends only to the runs it writes.
UsersOK == \A p \in Procs : job[p].step = "append" => p \in Users[job[p].run]

\* With one writer, the mirror is the table, or is one line behind it with that
\* line in flight.
OrderInv ==
  crashes = 0 =>
    \A r \in Runs :
      \/ events[r] = mirror[r] /\ InFlight(r) = {}
      \/ \E p \in InFlight(r) : events[r] = Append(mirror[r], job[p].event)

\* Only its own line or a death ends an append.
LEMMA NoAppendEnds ==
  ASSUME TypeOK, [Next]_vars, UNCHANGED <<events, mirror>>
  PROVE  \/ \E p \in Procs : Crash(p)
         \/ /\ crashes' = crashes
            /\ \A q \in Procs : job[q].step = "append" => job'[q] = job[q]
<1> DEFINE Kept == crashes' = crashes /\ \A q \in Procs : job[q].step = "append" => job'[q] = job[q]
<1>0. job \in [Procs -> Jobs] /\ crashes \in Nat
  BY StoreAssumption DEF TypeOK, Jobs
<1>1. ASSUME NEW p \in Procs, job[p].step # "append", crashes' = crashes,
             \A q \in Procs \ {p} : job[q].step = "append" => job'[q] = job[q]
      PROVE  Kept
  BY <1>1
<1>2. ASSUME NEW p \in Procs, AppendEventFile(p)
      PROVE  FALSE
  <2>1. job[p].run \in Runs /\ job[p].event \in EventIds
    BY <1>0, <1>2, JobByStep DEF AppendEventFile, AppendJobs
  <2>2. mirror'[job[p].run] = Append(mirror[job[p].run], job[p].event)
    BY <1>2, <2>1 DEF AppendEventFile, TypeOK
  <2> QED
    BY <2>1, <2>2 DEF TypeOK
<1>4. ASSUME NEW p \in Procs,
             \/ \E r \in Runs, v \in RowValues : CommitRow(p, r, v)
             \/ \E r \in Runs, e \in EventIds : CommitEvent(p, r, e)
             \/ \E r \in Runs, d \in Digests : StartPut(p, r, d)
             \/ WriteRunMeta(p) \/ BlobExists(p) \/ BlobMissing(p) \/ OpenTemp(p) \/ WriteBytes(p)
             \/ ReplaceRaises(p) \/ InsertRow(p)
      PROVE  Kept
  <2>1. job[p].step # "append" /\ crashes' = crashes
    BY <1>4 DEF CommitRow, CommitEvent, StartPut, WriteRunMeta, BlobExists, BlobMissing, OpenTemp, WriteBytes,
                ReplaceRaises, InsertRow, Idle
  <2>2. \A q \in Procs \ {p} : job'[q] = job[q]
    BY <1>0, <1>4 DEF CommitRow, CommitEvent, StartPut, WriteRunMeta, BlobExists, BlobMissing, OpenTemp,
                      WriteBytes, ReplaceRaises, InsertRow
  <2> QED
    BY <1>1, <2>1, <2>2
<1>5. ASSUME NEW p \in Procs, ReplacePath(p)
      PROVE  Kept
  <2>1. job[p].step # "append" /\ crashes' = crashes
    BY <1>5 DEF ReplacePath
  <2>2. \A q \in Procs \ {p} : job[q].step = "append" => job'[q] = job[q]
    BY <1>5 DEF ReplacePath, FollowRename
  <2> QED
    BY <1>1, <2>1, <2>2
<1>6. CASE UNCHANGED vars
  BY <1>6 DEF vars
<1> QED
  BY <1>2, <1>4, <1>5, <1>6 DEF Next, Start, Continue

\* With one user per run, the mirror lacks only the line about to be written.
LEMMA OrderStep ==
  ASSUME \A r \in Runs : \A p, q \in Users[r] : p = q,
         TypeOK, UsersOK, OrderInv, [Next]_vars
  PROVE  UsersOK' /\ OrderInv'
<1>0. job \in [Procs -> Jobs] /\ crashes \in Nat
  BY StoreAssumption DEF TypeOK, Jobs
<1>1. ASSUME NEW p \in Procs, NEW r \in Runs, NEW e \in EventIds, CommitEvent(p, r, e)
      PROVE  UsersOK' /\ OrderInv'
  <2>1. /\ job'[p] = [step |-> "append", run |-> r, event |-> e]
        /\ \A q \in Procs \ {p} : job'[q] = job[q]
        /\ mirror' = mirror /\ crashes' = crashes
        /\ events'[r] = Append(events[r], e)
        /\ \A q \in Runs \ {r} : events'[q] = events[q]
        /\ p \in Users[r] /\ job[p].step = "idle"
    BY <1>0, <1>1 DEF CommitEvent, TypeOK, Idle
  <2>2. UsersOK'
    BY <2>1 DEF UsersOK
  <2>3. ASSUME crashes = 0
        PROVE  events[r] = mirror[r]
    <3>1. InFlight(r) = {}
      BY <2>1 DEF InFlight, UsersOK
    <3> QED
      BY <2>3, <3>1 DEF OrderInv
  <2>4. p \in InFlight(r)' /\ \A q \in Runs \ {r} : InFlight(q)' = InFlight(q)
    BY <2>1 DEF InFlight
  <2>5. OrderInv'
    <3> SUFFICES ASSUME crashes = 0, NEW q \in Runs
                 PROVE  \/ events'[q] = mirror'[q] /\ InFlight(q)' = {}
                        \/ \E x \in InFlight(q)' : events'[q] = Append(mirror'[q], job'[x].event)
      BY <2>1 DEF OrderInv
    <3>1. CASE q = r
      BY <2>1, <2>3, <2>4, <3>1
    <3>2. CASE q # r
      <4>1. \A x \in InFlight(q) : x # p /\ x \in Procs
        BY <2>1 DEF InFlight
      <4> QED
        BY <2>1, <2>4, <3>2, <4>1 DEF OrderInv
    <3> QED
      BY <3>1, <3>2
  <2> QED
    BY <2>2, <2>5
<1>2. ASSUME NEW p \in Procs, AppendEventFile(p)
      PROVE  UsersOK' /\ OrderInv'
  <2> PICK r : r = job[p].run
    OBVIOUS
  <2>1. /\ job[p] \in AppendJobs /\ r \in Runs
        /\ p \in Users[r] /\ p \in InFlight(r)
    BY <1>0, <1>2, JobByStep DEF AppendEventFile, AppendJobs, UsersOK, InFlight
  <2>2. /\ job'[p] = Idle
        /\ \A q \in Procs \ {p} : job'[q] = job[q]
        /\ events' = events /\ crashes' = crashes
        /\ mirror'[r] = Append(mirror[r], job[p].event)
        /\ \A q \in Runs \ {r} : mirror'[q] = mirror[q]
    BY <1>0, <1>2, <2>1 DEF AppendEventFile, TypeOK
  <2>3. UsersOK'
    BY <2>2 DEF UsersOK, Idle
  <2>4. \A q \in InFlight(r) : q = p
    BY <2>1 DEF InFlight, UsersOK
  <2>5. InFlight(r)' = {} /\ \A q \in Runs \ {r} : InFlight(q)' = InFlight(q)
    BY <2>1, <2>2, <2>4 DEF InFlight, Idle
  <2>6. OrderInv'
    <3> SUFFICES ASSUME crashes = 0, NEW q \in Runs
                 PROVE  \/ events'[q] = mirror'[q] /\ InFlight(q)' = {}
                        \/ \E x \in InFlight(q)' : events'[q] = Append(mirror'[q], job'[x].event)
      BY <2>2 DEF OrderInv
    <3>1. CASE q = r
      BY <2>1, <2>2, <2>4, <2>5, <3>1 DEF OrderInv
    <3>2. CASE q # r
      <4>1. \A x \in InFlight(q) : x # p /\ x \in Procs
        BY <2>1, <3>2 DEF InFlight
      <4> QED
        BY <2>2, <2>5, <3>2, <4>1 DEF OrderInv
    <3> QED
      BY <3>1, <3>2
  <2> QED
    BY <2>3, <2>6
<1>3. ASSUME UNCHANGED <<events, mirror>>,
             \A q \in Procs : job'[q].step = "append" => job'[q] = job[q]
      PROVE  UsersOK' /\ OrderInv'
  <2>1. UsersOK'
    BY <1>3 DEF UsersOK
  <2>2. CASE crashes' # 0
    BY <2>1, <2>2 DEF OrderInv
  <2>3. CASE crashes' = 0
    <3>1. crashes = 0 /\ \A q \in Procs : job[q].step = "append" => job'[q] = job[q]
      BY <1>0, <2>3, NoAppendEnds, <1>3 DEF Crash
    <3>2. \A r \in Runs : InFlight(r)' = InFlight(r)
      BY <1>3, <3>1 DEF InFlight
    <3>3. \A r \in Runs : \A x \in InFlight(r) : job'[x] = job[x]
      BY <3>1 DEF InFlight
    <3> QED
      BY <1>3, <2>1, <3>1, <3>2, <3>3 DEF OrderInv
  <2> QED
    BY <2>2, <2>3
<1> QED
  BY <1>1, <1>2, <1>3, StreamFrame

\* A run that one process writes always verifies at rest while nothing dies,
\* although the other runs share the CAS, its temporary files included.
THEOREM SingleWriterRunsVerify ==
  ASSUME \A r \in Runs : \A p, q \in Users[r] : p = q
  PROVE  Spec => []SingleWriterVerifies
<1>1. Init => UsersOK /\ OrderInv /\ TornInv /\ BlobInv
  BY DEF Init, UsersOK, OrderInv, TornInv, BlobInv, RowsHaveBlobs, PutsOK, PutSteps, Idle, InFlight
<1>2. /\ TypeOK /\ DirsOK /\ TypeOK' /\ DirsOK'
      /\ UsersOK /\ OrderInv /\ TornInv /\ BlobInv /\ [Next]_vars
      => UsersOK' /\ OrderInv' /\ TornInv' /\ BlobInv'
  BY OrderStep, TornStep, BlobStep
<1>3. TypeOK /\ OrderInv /\ TornInv /\ BlobInv => SingleWriterVerifies
  <2> SUFFICES ASSUME TypeOK, OrderInv, TornInv, BlobInv,
                      NEW r \in Runs, crashes = 0, Quiescent, events[r] # <<>>
               PROVE  ReplayVerifies(r)
    BY DEF SingleWriterVerifies
  <2>1. EventMirrorVerifies(r)
    <3>1. InFlight(r) = {}
      BY DEF Quiescent, InFlight, Idle
    <3> QED
      BY <3>1 DEF OrderInv, EventMirrorVerifies
  <2>2. ASSUME NEW d \in Digests, <<r, d>> \in rows
        PROVE  ReadsBack(r, d)
    <3>1. \A pl \in Places : path[pl] # "torn"
      BY DEF TornInv, WritesTo, Quiescent, Idle
    <3>2. <<Cas, d>> \in Places /\ <<r, d>> \in Places
      BY DEF Places, Dirs
    <3> QED
      BY <2>2, <3>1, <3>2 DEF BlobInv, RowsHaveBlobs, TypeOK, File, ReadsBack
  <2> QED
    BY <2>1, <2>2 DEF ReplayVerifies
<1> QED
  BY <1>1, <1>2, <1>3, TypeCorrect, PTL DEF Spec

-----------------------------------------------------------------------------
(* What is written beside the tables.                                      *)

\* Only the owner of a run is between its row and its meta.json.
LEMMA MetaStep ==
  ASSUME TypeOK, MetaIsLatest, [Next]_vars
  PROVE  MetaIsLatest'
<1>0. job \in [Procs -> Jobs] /\ crashes \in Nat /\ Owner \in [Runs -> Procs]
  BY StoreAssumption DEF TypeOK, Jobs
<1>1. ASSUME NEW p \in Procs, NEW r \in Runs, NEW v \in RowValues, CommitRow(p, r, v)
      PROVE  MetaIsLatest'
  <2>1. /\ job'[p].step = "meta" /\ job'[p].run = r /\ Owner[r] = p /\ job[p].step = "idle"
        /\ \A q \in Procs \ {p} : job'[q] = job[q]
        /\ UNCHANGED <<meta, crashes>> /\ \A q \in Runs \ {r} : row'[q] = row[q]
    BY <1>0, <1>1 DEF CommitRow, Idle, TypeOK
  <2> QED BY <1>0, <2>1 DEF MetaIsLatest
<1>2. ASSUME NEW p \in Procs, WriteRunMeta(p)
      PROVE  MetaIsLatest'
  <2>1. job[p].run \in Runs /\ job[p].step = "meta"
    BY <1>0, <1>2, JobByStep DEF WriteRunMeta, MetaJobs
  <2>2. /\ \A q \in Procs \ {p} : job'[q] = job[q]
        /\ UNCHANGED <<row, crashes>> /\ meta'[job[p].run] = row[job[p].run]
        /\ \A q \in Runs \ {job[p].run} : meta'[q] = meta[q]
    BY <1>0, <1>2, <2>1 DEF WriteRunMeta, TypeOK
  <2> QED BY <1>0, <2>1, <2>2 DEF MetaIsLatest
<1>3. ASSUME UNCHANGED <<row, meta, crashes>>,
             \A q \in Procs : job[q].step = "meta" => job'[q] = job[q]
      PROVE  MetaIsLatest'
  BY <1>0, <1>3 DEF MetaIsLatest
<1>4. ASSUME NEW p \in Procs,
             \/ \E r \in Runs, e \in EventIds : CommitEvent(p, r, e)
             \/ \E r \in Runs, d \in Digests : StartPut(p, r, d)
             \/ AppendEventFile(p) \/ BlobExists(p) \/ BlobMissing(p) \/ OpenTemp(p) \/ WriteBytes(p)
             \/ ReplaceRaises(p) \/ InsertRow(p)
      PROVE  MetaIsLatest'
  <2>1. job[p].step # "meta" /\ UNCHANGED <<row, meta, crashes>>
    BY <1>4 DEF CommitEvent, StartPut, AppendEventFile, BlobExists, BlobMissing, OpenTemp, WriteBytes,
                ReplaceRaises, InsertRow, Idle
  <2>2. \A q \in Procs \ {p} : job'[q] = job[q]
    BY <1>0, <1>4 DEF CommitEvent, StartPut, AppendEventFile, BlobExists, BlobMissing, OpenTemp,
                      WriteBytes, ReplaceRaises, InsertRow
  <2> QED BY <1>3, <2>1, <2>2
<1>5. ASSUME NEW p \in Procs, ReplacePath(p)
      PROVE  MetaIsLatest'
  <2>1. job[p].step # "meta" /\ UNCHANGED <<row, meta, crashes>>
    BY <1>5 DEF ReplacePath
  <2>2. \A q \in Procs \ {p} : job[q].step = "meta" => job'[q] = job[q]
    BY <1>5 DEF ReplacePath, FollowRename
  <2> QED BY <1>3, <2>1, <2>2
<1>6. ASSUME NEW p \in Procs, Crash(p)
      PROVE  MetaIsLatest'
  BY <1>0, <1>6 DEF Crash, MetaIsLatest
<1>7. CASE UNCHANGED vars
  BY <1>3, <1>7 DEF vars
<1> QED
  BY <1>1, <1>2, <1>4, <1>5, <1>6, <1>7 DEF Next, Start, Continue

\* The events of a run that have no line yet.
Gap(r) == Lines(events[r]) \ Lines(mirror[r])

GapsCounted ==
  \A r \in Runs : IsFiniteSet(Gap(r)) /\ Cardinality(Gap(r)) <= Cardinality(InFlight(r)) + crashes

\* A gap opens with its carrier, and closes with it, or with a death.
LEMMA GapStep ==
  ASSUME IsFiniteSet(Procs), TypeOK, StreamInv, GapsCounted, [Next]_vars
  PROVE  GapsCounted'
<1>0. job \in [Procs -> Jobs] /\ crashes \in Nat
  BY StoreAssumption DEF TypeOK, Jobs
<1>1. ASSUME NEW r \in Runs
      PROVE  /\ IsFiniteSet(InFlight(r)) /\ Cardinality(InFlight(r)) \in Nat
             /\ IsFiniteSet(Gap(r)) /\ Cardinality(Gap(r)) \in Nat
             /\ Cardinality(Gap(r)) <= Cardinality(InFlight(r)) + crashes
  <2>1. IsFiniteSet(InFlight(r))
    BY FS_Subset DEF InFlight
  <2> QED BY <2>1, FS_CardinalityType DEF GapsCounted
<1>2. ASSUME NEW p \in Procs, NEW r \in Runs, NEW e \in EventIds, CommitEvent(p, r, e), NEW q \in Runs
      PROVE  IsFiniteSet(Gap(q)') /\ Cardinality(Gap(q)') <= Cardinality(InFlight(q)') + crashes'
  <2>1. /\ job'[p] = [step |-> "append", run |-> r, event |-> e]
        /\ \A x \in Procs \ {p} : job'[x] = job[x]
        /\ mirror' = mirror /\ crashes' = crashes /\ job[p].step = "idle"
        /\ \A x \in Runs \ {r} : events'[x] = events[x]
    BY <1>0, <1>2 DEF CommitEvent, TypeOK, Idle
  <2>2. Lines(events'[r]) = Lines(events[r]) \cup {e}
    BY <1>2, LinesAppend DEF CommitEvent, TypeOK
  <2>3. CASE q # r
    <3>1. Gap(q)' = Gap(q) /\ InFlight(q)' = InFlight(q)
      BY <2>1, <2>3 DEF Gap, InFlight
    <3> QED BY <1>1, <2>1, <3>1
  <2>4. CASE q = r
    <3>1. Gap(r)' \subseteq Gap(r) \cup {e}
      BY <2>1, <2>2 DEF Gap
    <3>2. InFlight(r)' = InFlight(r) \cup {p} /\ p \notin InFlight(r)
      BY <2>1 DEF InFlight
    <3>3. Cardinality(InFlight(r)') = Cardinality(InFlight(r)) + 1
      BY <1>1, <3>2, FS_AddElement
    <3>4. /\ IsFiniteSet(Gap(r) \cup {e}) /\ Cardinality(Gap(r) \cup {e}) <= Cardinality(Gap(r)) + 1
      <4>1. /\ IsFiniteSet(Gap(r) \cup {e})
            /\ Cardinality(Gap(r) \cup {e}) =
                 IF e \in Gap(r) THEN Cardinality(Gap(r)) ELSE Cardinality(Gap(r)) + 1
        BY <1>1, FS_AddElement
      <4> QED BY <1>1, <4>1
    <3>5. IsFiniteSet(Gap(r)') /\ Cardinality(Gap(r)') <= Cardinality(Gap(r) \cup {e})
      BY <3>1, <3>4, FS_Subset
    <3>6. Cardinality(Gap(r)') \in Nat /\ Cardinality(Gap(r) \cup {e}) \in Nat
      BY <3>4, <3>5, FS_CardinalityType
    <3> QED BY <1>0, <1>1, <2>1, <2>4, <3>3, <3>4, <3>5, <3>6
  <2> QED BY <2>3, <2>4
<1>3. ASSUME NEW p \in Procs, AppendEventFile(p), NEW q \in Runs
      PROVE  IsFiniteSet(Gap(q)') /\ Cardinality(Gap(q)') <= Cardinality(InFlight(q)') + crashes'
  <2> PICK r, e : r = job[p].run /\ e = job[p].event
    OBVIOUS
  <2>1. /\ r \in Runs /\ e \in EventIds /\ e \in Gap(r) /\ p \in InFlight(r)
        /\ job'[p].step = "idle" /\ \A x \in Procs \ {p} : job'[x] = job[x]
        /\ events' = events /\ crashes' = crashes
        /\ mirror'[r] = Append(mirror[r], e)
        /\ \A x \in Runs \ {r} : mirror'[x] = mirror[x]
    <3>1. job[p] \in AppendJobs /\ job[p].step = "append"
      BY <1>0, <1>3, JobByStep DEF AppendEventFile
    <3>2. r \in Runs /\ e \in EventIds
      BY <3>1 DEF AppendJobs
    <3>3. e \in Gap(r) /\ p \in InFlight(r)
      BY <3>1 DEF StreamInv, InFlightOK, Gap, InFlight
    <3> QED BY <1>0, <1>3, <3>2, <3>3 DEF AppendEventFile, TypeOK, Idle
  <2>2. Lines(mirror'[r]) = Lines(mirror[r]) \cup {e}
    BY <2>1, LinesAppend DEF TypeOK
  <2>3. CASE q # r
    <3>1. Gap(q)' = Gap(q) /\ InFlight(q)' = InFlight(q)
      BY <2>1, <2>3 DEF Gap, InFlight
    <3> QED BY <1>1, <2>1, <3>1
  <2>4. CASE q = r
    <3>1. Gap(r)' = Gap(r) \ {e} /\ InFlight(r)' = InFlight(r) \ {p}
      BY <2>1, <2>2 DEF Gap, InFlight
    <3>2. /\ IsFiniteSet(Gap(r) \ {e})
          /\ Cardinality(Gap(r) \ {e}) = Cardinality(Gap(r)) - 1
      <4>1. IsFiniteSet(Gap(r)) /\ e \in Gap(r)
        BY <1>1, <2>1
      <4> QED BY <4>1, FS_RemoveElement
    <3>3. Cardinality(InFlight(r) \ {p}) = Cardinality(InFlight(r)) - 1
      <4>1. IsFiniteSet(InFlight(r)) /\ p \in InFlight(r)
        BY <1>1, <2>1
      <4> QED BY <4>1, FS_RemoveElement
    <3> QED BY <1>0, <1>1, <2>1, <2>4, <3>1, <3>2, <3>3
  <2> QED BY <2>3, <2>4
<1>4. ASSUME NEW p \in Procs, Crash(p), UNCHANGED <<events, mirror>>, NEW q \in Runs
      PROVE  IsFiniteSet(Gap(q)') /\ Cardinality(Gap(q)') <= Cardinality(InFlight(q)') + crashes'
  <2>1. /\ job'[p].step = "idle" /\ \A x \in Procs \ {p} : job'[x] = job[x]
        /\ crashes' = crashes + 1
    BY <1>0, <1>4 DEF Crash, Idle
  <2>2. Gap(q)' = Gap(q) /\ InFlight(q)' = InFlight(q) \ {p}
    BY <1>4, <2>1 DEF Gap, InFlight
  <2>3. Cardinality(InFlight(q)') >= Cardinality(InFlight(q)) - 1 /\ Cardinality(InFlight(q)') \in Nat
    <3>1. /\ IsFiniteSet(InFlight(q) \ {p})
          /\ Cardinality(InFlight(q) \ {p}) =
               IF p \in InFlight(q) THEN Cardinality(InFlight(q)) - 1 ELSE Cardinality(InFlight(q))
      BY <1>1, FS_RemoveElement
    <3>2. Cardinality(InFlight(q) \ {p}) \in Nat
      BY <3>1, FS_CardinalityType
    <3> QED BY <1>1, <2>2, <3>1, <3>2
  <2> QED BY <1>0, <1>1, <2>1, <2>2, <2>3
<1>5. ASSUME UNCHANGED <<events, mirror>>, crashes' = crashes,
             \A q \in Procs : job'[q].step = "append" => job'[q] = job[q],
             \A q \in Procs : job[q].step = "append" => job'[q] = job[q],
             NEW q \in Runs
      PROVE  IsFiniteSet(Gap(q)') /\ Cardinality(Gap(q)') <= Cardinality(InFlight(q)') + crashes'
  <2>1. Gap(q)' = Gap(q) /\ InFlight(q)' = InFlight(q)
    BY <1>5 DEF Gap, InFlight
  <2> QED BY <1>1, <1>5, <2>1
<1> SUFFICES ASSUME NEW q \in Runs
             PROVE  IsFiniteSet(Gap(q)') /\ Cardinality(Gap(q)') <= Cardinality(InFlight(q)') + crashes'
  BY DEF GapsCounted
<1>6. CASE \E p \in Procs, r \in Runs, e \in EventIds : CommitEvent(p, r, e)
  BY <1>2, <1>6
<1>7. CASE \E p \in Procs : AppendEventFile(p)
  BY <1>3, <1>7
<1>8. CASE /\ UNCHANGED <<events, mirror>>
           /\ \A x \in Procs : job'[x].step = "append" => job'[x] = job[x]
  BY <1>4, <1>5, <1>8, NoAppendEnds
<1> QED BY <1>6, <1>7, <1>8, StreamFrame

\* Whatever the writers and the deaths, events.jsonl lacks no more events than are
\* being written and processes died; and until one dies meta.json is the run's row,
\* but for the one that its owner is publishing.
THEOREM MirrorsAreUpToDate ==
  ASSUME IsFiniteSet(Procs)
  PROVE  Spec => []MirrorsUpToDate
<1>1. Init => StreamInv /\ GapsCounted /\ MetaIsLatest
  <2> SUFFICES ASSUME Init PROVE StreamInv /\ GapsCounted /\ MetaIsLatest
    OBVIOUS
  <2>1. StreamInv
    BY LinesEmpty DEF Init, StreamInv, MirrorSound, InFlightOK, Idle
  <2>2. \A r \in Runs : Gap(r) = {} /\ InFlight(r) = {} /\ crashes = 0
    BY LinesEmpty DEF Init, Gap, InFlight, Idle
  <2>3. GapsCounted
    BY <2>2, FS_EmptySet DEF GapsCounted
  <2>4. MetaIsLatest
    BY DEF Init, MetaIsLatest
  <2> QED BY <2>1, <2>3, <2>4
<1>2. /\ TypeOK /\ StreamInv /\ GapsCounted /\ MetaIsLatest /\ [Next]_vars
      => StreamInv' /\ GapsCounted' /\ MetaIsLatest'
  BY StreamStep, GapStep, MetaStep
<1>3. GapsCounted /\ MetaIsLatest => MirrorsUpToDate
  BY DEF GapsCounted, Gap, MirrorGapsBounded, MirrorsUpToDate
<1> QED BY <1>1, <1>2, <1>3, TypeCorrect, PTL DEF Spec

\* While only one process writes, the temporary file it renames is whole.
AloneInv ==
  /\ PublishedBlobsWhole
  /\ \A p \in Procs : /\ job[p].step = "write" => job[p].fd = "temp"
                      /\ job[p].step = "replace" => temp[Place(job[p])] = "whole"

LEMMA AloneStep ==
  ASSUME \A p, q \in Procs : p = q, TypeOK, DirsOK, AloneInv, [Next]_vars
  PROVE  AloneInv'
<1>0. job \in [Procs -> Jobs]
  BY DEF TypeOK, Jobs
<1>1. ASSUME NEW p \in Procs, job'[p].step \notin {"write", "replace"}, path' = path
      PROVE  AloneInv'
  BY <1>1 DEF AloneInv, PublishedBlobsWhole
<1>2. ASSUME NEW p \in Procs,
             \/ \E r \in Runs, v \in RowValues : CommitRow(p, r, v)
             \/ \E r \in Runs, e \in EventIds : CommitEvent(p, r, e)
             \/ \E r \in Runs, d \in Digests : StartPut(p, r, d)
             \/ WriteRunMeta(p) \/ AppendEventFile(p) \/ ReplaceRaises(p) \/ InsertRow(p) \/ Crash(p)
      PROVE  AloneInv'
  <2>1. job'[p].step \in {"meta", "append", "exists", "idle"} /\ path' = path
    BY <1>0, <1>2 DEF CommitRow, CommitEvent, StartPut, WriteRunMeta, AppendEventFile, ReplaceRaises,
                      InsertRow, Crash, Idle
  <2> QED BY <1>1, <2>1
<1>3. ASSUME NEW p \in Procs, job[p].step \in PutSteps
      PROVE  job[p] \in PutJobs /\ Place(job[p]) \in Places /\ Placed(job[p]).step \in {"exists", "insert"}
  <2>1. job[p] \in PutJobs
    BY <1>0, <1>3, JobByStep
  <2> QED BY <1>3, <2>1, PlacedType DEF DirsOK, Placed, PutJobs
<1>4. ASSUME NEW p \in Procs, BlobExists(p) \/ BlobMissing(p)
      PROVE  AloneInv'
  <2>1. job[p].step \in PutSteps
    BY <1>4 DEF BlobExists, BlobMissing, PutSteps
  <2>2. job'[p].step \in {"exists", "insert", "open"} /\ path' = path
    BY <1>0, <1>3, <1>4, <2>1 DEF BlobExists, BlobMissing, PutJobs
  <2> QED BY <1>1, <2>2
<1>5. ASSUME NEW p \in Procs, OpenTemp(p)
      PROVE  AloneInv'
  <2>1. job[p] \in PutJobs
    BY <1>3, <1>5 DEF OpenTemp, PutSteps
  <2>2. job'[p].step = "write" /\ job'[p].fd = "temp" /\ path' = path
    BY <1>0, <1>5, <2>1 DEF OpenTemp, PutJobs
  <2> QED BY <2>2 DEF AloneInv, PublishedBlobsWhole
<1>6. ASSUME NEW p \in Procs, WriteBytes(p)
      PROVE  AloneInv'
  <2>1. job[p] \in PutJobs /\ Place(job[p]) \in Places /\ job[p].fd = "temp"
    BY <1>3, <1>6 DEF WriteBytes, PutSteps, AloneInv
  <2>2. job'[p].step = "replace" /\ Place(job'[p]) = Place(job[p])
    BY <1>0, <1>6, <2>1 DEF WriteBytes, PutJobs, Place
  <2>3. path' = path /\ temp'[Place(job[p])] = "whole"
    BY <1>6, <2>1 DEF WriteBytes, TypeOK
  <2> QED BY <2>2, <2>3 DEF AloneInv, PublishedBlobsWhole
<1>7. ASSUME NEW p \in Procs, ReplacePath(p)
      PROVE  AloneInv'
  <2>1. Place(job[p]) \in Places /\ job'[p].step \in {"exists", "insert"}
    BY <1>0, <1>3, <1>7 DEF ReplacePath, PutSteps
  <2>2. /\ path'[Place(job[p])] = "whole"
        /\ \A pl \in Places \ {Place(job[p])} : path'[pl] = path[pl]
    BY <1>7, <2>1 DEF ReplacePath, AloneInv, TypeOK
  <2> QED BY <2>1, <2>2 DEF AloneInv, PublishedBlobsWhole
<1>8. CASE UNCHANGED vars
  BY <1>8 DEF vars, AloneInv, PublishedBlobsWhole
<1> QED
  BY <1>2, <1>4, <1>5, <1>6, <1>7, <1>8 DEF Next, Start, Continue

\* A process that is alone with the store never leaves a torn blob at its place,
\* wherever it dies and however often it is started again.
THEOREM AloneBlobsAreWhole ==
  ASSUME \A p, q \in Procs : p = q
  PROVE  Spec => []PublishedBlobsWhole
<1>1. Init => AloneInv
  BY DEF Init, AloneInv, PublishedBlobsWhole, Idle
<1>2. /\ TypeOK /\ DirsOK /\ AloneInv /\ [Next]_vars
      => AloneInv'
  BY AloneStep
<1>3. AloneInv => PublishedBlobsWhole
  BY DEF AloneInv
<1> QED BY <1>1, <1>2, <1>3, TypeCorrect, PTL DEF Spec
=============================================================================
