------------------------------ MODULE RunStore ------------------------------
(***************************************************************************)
(* The persistence layer (src/src/poor_cli/store.py): a SQLite database of *)
(* runs, events and artifact rows, a content-addressed store shared by all *)
(* runs, and under each run's directory a mirror of its event stream, of   *)
(* its blobs and of its row (events.jsonl, cas/, meta.json).               *)
(*                                                                         *)
(* A process is one invocation of the program with its own RunStore, or    *)
(* one of several threads that each opened one; when it dies, or an        *)
(* operation of it raises, a later invocation may take its place.  SQLite  *)
(* transactions are atomic steps; every file operation is a step of its    *)
(* own, because nothing locks the files.                                   *)
(***************************************************************************)
EXTENDS Naturals, Sequences, FiniteSets

CONSTANTS
  Procs,       \* processes that may have the store open
  Runs,        \* run ids
  EventIds,    \* event ids, unique by make_id: each is appended at most once
  Digests,     \* SHA-256 digests of the payloads that are stored
  RowValues,   \* contents of a row of table runs (status, plan, summary)
  Cas,         \* the directory of the content-addressed store all runs share
  Users,       \* Users[r]: the processes that write events and artifacts of r
  Owner,       \* Owner[r]: the one that creates r and updates its row
  MaxCrashes   \* bound on the number of processes that die

ASSUME StoreAssumption ==
  /\ Cas \notin Runs
  /\ Users \in [Runs -> SUBSET Procs]
  /\ Owner \in [Runs -> Procs]
  /\ MaxCrashes \in Nat
  /\ "absent" \notin RowValues

Dirs   == Runs \cup {Cas}
Places == Dirs \X Digests              \* where a blob is published

VARIABLES
  row,      \* table runs: the row of each run, or "absent"
  meta,     \* meta.json of each run
  events,   \* table events: each run's events in rowid order
  mirror,   \* events.jsonl of each run, line by line
  rows,     \* table artifacts: <<run, digest>> of each row
  path,     \* the published file of each blob
  temp,     \* the temporary file beside it
  job,      \* the operation each process is in
  crashes   \* number of deaths so far

vars == <<row, meta, events, mirror, rows, path, temp, job, crashes>>

File == {"absent", "torn", "whole"}    \* torn: opened, truncated, not yet written

Idle       == [step |-> "idle"]
AppendJobs == [step : {"append"}, run : Runs, event : EventIds]
MetaJobs   == [step : {"meta"}, run : Runs]
PutJobs    == [step : {"exists", "open", "write", "replace", "insert"},
               run : Runs, digest : Digests, dir : Dirs,
               fd : {"none", "temp", "path", "gone"}]

Lines(s) == {s[i] : i \in DOMAIN s}

TypeOK ==
  /\ row \in [Runs -> RowValues \cup {"absent"}]
  /\ meta \in [Runs -> RowValues \cup {"absent"}]
  /\ events \in [Runs -> Seq(EventIds)]
  /\ mirror \in [Runs -> Seq(EventIds)]
  /\ rows \subseteq Runs \X Digests
  /\ path \in [Places -> File]
  /\ temp \in [Places -> File]
  /\ job \in [Procs -> {Idle} \cup AppendJobs \cup MetaJobs \cup PutJobs]
  /\ crashes \in 0..MaxCrashes

Init ==
  /\ row = [r \in Runs |-> "absent"]
  /\ meta = [r \in Runs |-> "absent"]
  /\ events = [r \in Runs |-> <<>>]
  /\ mirror = [r \in Runs |-> <<>>]
  /\ rows = {}
  /\ path = [pl \in Places |-> "absent"]
  /\ temp = [pl \in Places |-> "absent"]
  /\ job = [p \in Procs |-> Idle]
  /\ crashes = 0

-----------------------------------------------------------------------------
(* create_run, set_run_status and set_run_plan: the row is committed, then *)
(* _write_run_meta reads it back and publishes it.  Only the owner calls   *)
(* them, so meta.json's own temporary file has a single writer.            *)

\* Mutant: the row changes and meta.json is not rewritten.
CommitRowOnly(p, r, v) ==
  /\ job[p] = Idle /\ Owner[r] = p
  /\ row' = [row EXCEPT ![r] = v]
  /\ UNCHANGED <<meta, events, mirror, rows, path, temp, job, crashes>>

CommitRow(p, r, v) ==
  /\ job[p] = Idle /\ Owner[r] = p
  /\ row' = [row EXCEPT ![r] = v]
  /\ job' = [job EXCEPT ![p] = [step |-> "meta", run |-> r]]
  /\ UNCHANGED <<meta, events, mirror, rows, path, temp, crashes>>

WriteRunMeta(p) ==
  /\ job[p].step = "meta"
  /\ meta' = [meta EXCEPT ![job[p].run] = row[job[p].run]]
  /\ job' = [job EXCEPT ![p] = Idle]
  /\ UNCHANGED <<row, events, mirror, rows, path, temp, crashes>>

-----------------------------------------------------------------------------
(* append_event: the row is committed, then the line is appended to        *)
(* events.jsonl.  The foreign key refuses an event of an unknown run.      *)

\* Mutant: the line is written before the row is committed.
CommitEventLineFirst(p, r, e) ==
  /\ job[p] = Idle /\ p \in Users[r] /\ row[r] # "absent"
  /\ mirror' = [mirror EXCEPT ![r] = Append(@, e)]
  /\ job' = [job EXCEPT ![p] = [step |-> "append", run |-> r, event |-> e]]
  /\ UNCHANGED <<row, meta, events, rows, path, temp, crashes>>

CommitEvent(p, r, e) ==
  /\ job[p] = Idle /\ p \in Users[r] /\ row[r] # "absent"
  /\ \A q \in Runs : e \notin Lines(events[q])
  /\ events' = [events EXCEPT ![r] = Append(@, e)]
  /\ job' = [job EXCEPT ![p] = [step |-> "append", run |-> r, event |-> e]]
  /\ UNCHANGED <<row, meta, mirror, rows, path, temp, crashes>>

\* Mutants: the line is dropped, or is retried although it was written.
DropLine(p) ==
  /\ job[p].step = "append"
  /\ job' = [job EXCEPT ![p] = Idle]
  /\ UNCHANGED <<row, meta, events, mirror, rows, path, temp, crashes>>

RetryLine(p) ==
  /\ job[p].step = "append"
  /\ mirror' = [mirror EXCEPT ![job[p].run] = Append(@, job[p].event)]
  /\ UNCHANGED <<row, meta, events, rows, path, temp, job, crashes>>

AppendEventFile(p) ==
  /\ job[p].step = "append"
  /\ mirror' = [mirror EXCEPT ![job[p].run] = Append(@, job[p].event)]
  /\ job' = [job EXCEPT ![p] = Idle]
  /\ UNCHANGED <<row, meta, events, rows, path, temp, crashes>>

-----------------------------------------------------------------------------
(* put_artifact: CAS.write, then _mirror_run_blob, then the row.  Both file *)
(* writers do the same at their own place: skip a path that exists, else    *)
(* write a temporary file whose name depends on the digest alone and        *)
(* replace the path with it.                                                *)

Place(j) == <<j.dir, j.digest>>

\* (Mutant SkipMirror: straight to the row, _mirror_run_blob left out.)
SkipMirror(j) == [j EXCEPT !.step = "insert", !.fd = "none"]

\* What follows when the blob is at its place: the run's mirror, then the row.
Placed(j) == IF j.dir = Cas
             THEN [j EXCEPT !.step = "exists", !.dir = j.run, !.fd = "none"]
             ELSE [j EXCEPT !.step = "insert", !.fd = "none"]

StartPut(p, r, d) ==
  /\ job[p] = Idle /\ p \in Users[r] /\ row[r] # "absent"
  /\ job' = [job EXCEPT ![p] = [step |-> "exists", run |-> r, digest |-> d,
                                dir |-> Cas, fd |-> "none"]]
  /\ UNCHANGED <<row, meta, events, mirror, rows, path, temp, crashes>>

BlobExists(p) ==
  /\ job[p].step = "exists" /\ path[Place(job[p])] # "absent"
  /\ job' = [job EXCEPT ![p] = Placed(@)]
  /\ UNCHANGED <<row, meta, events, mirror, rows, path, temp, crashes>>

BlobMissing(p) ==
  /\ job[p].step = "exists" /\ path[Place(job[p])] = "absent"
  /\ job' = [job EXCEPT ![p].step = "open"]
  /\ UNCHANGED <<row, meta, events, mirror, rows, path, temp, crashes>>

\* Opening creates the temporary file or truncates the one that is there.
\* Mutant: the file is renamed unwritten.
RenameUnwritten(p) ==
  /\ job[p].step = "open"
  /\ temp' = [temp EXCEPT ![Place(job[p])] = "torn"]
  /\ job' = [job EXCEPT ![p].step = "replace"]
  /\ UNCHANGED <<row, meta, events, mirror, rows, path, crashes>>

OpenTemp(p) ==
  /\ job[p].step = "open"
  /\ temp' = [temp EXCEPT ![Place(job[p])] = "torn"]
  /\ job' = [job EXCEPT ![p].step = "write", ![p].fd = "temp"]
  /\ UNCHANGED <<row, meta, events, mirror, rows, path, crashes>>

\* The bytes go to the file the descriptor follows, wherever it is named now.
WriteBytes(p) ==
  /\ job[p].step = "write"
  /\ temp' = IF job[p].fd = "temp" THEN [temp EXCEPT ![Place(job[p])] = "whole"] ELSE temp
  /\ path' = IF job[p].fd = "path" THEN [path EXCEPT ![Place(job[p])] = "whole"] ELSE path
  /\ job' = [job EXCEPT ![p].step = "replace", ![p].fd = "none"]
  /\ UNCHANGED <<row, meta, events, mirror, rows, crashes>>

\* Descriptors follow the rename: one on the temporary file is now on the
\* path, one on the file that was at the path is on a file without a name.
FollowRename(j, pl) ==
  IF j.step = "write" /\ Place(j) = pl
  THEN [j EXCEPT !.fd = IF @ = "temp" THEN "path" ELSE "gone"]
  ELSE j

ReplacePath(p) ==
  LET pl == Place(job[p]) IN
  /\ job[p].step = "replace" /\ temp[pl] # "absent"
  /\ path' = [path EXCEPT ![pl] = temp[pl]]
  /\ temp' = [temp EXCEPT ![pl] = "absent"]
  /\ job' = [q \in Procs |-> IF q = p THEN Placed(job[p]) ELSE FollowRename(job[q], pl)]
  /\ UNCHANGED <<row, meta, events, mirror, rows, crashes>>

\* Another writer of the digest took the temporary file: FileNotFoundError
\* leaves put_artifact and ends the operation.
ReplaceRaises(p) ==
  /\ job[p].step = "replace" /\ temp[Place(job[p])] = "absent"
  /\ job' = [job EXCEPT ![p] = Idle]
  /\ UNCHANGED <<row, meta, events, mirror, rows, path, temp, crashes>>

InsertRow(p) ==
  /\ job[p].step = "insert"
  /\ rows' = rows \cup {<<job[p].run, job[p].digest>>}
  /\ job' = [job EXCEPT ![p] = Idle]
  /\ UNCHANGED <<row, meta, events, mirror, path, temp, crashes>>

-----------------------------------------------------------------------------
(* A process dies between two steps; its descriptors close and a later     *)
(* invocation may start.                                                   *)

Crash(p) ==
  /\ job[p] # Idle /\ crashes < MaxCrashes
  /\ job' = [job EXCEPT ![p] = Idle]
  /\ crashes' = crashes + 1
  /\ UNCHANGED <<row, meta, events, mirror, rows, path, temp>>

Continue(p) ==
  \/ WriteRunMeta(p) \/ AppendEventFile(p)
  \/ BlobExists(p) \/ BlobMissing(p) \/ OpenTemp(p) \/ WriteBytes(p)
  \/ ReplacePath(p) \/ ReplaceRaises(p) \/ InsertRow(p)

Start(p) ==
  \E r \in Runs :
    \/ \E v \in RowValues : CommitRow(p, r, v)
    \/ \E e \in EventIds : CommitEvent(p, r, e)
    \/ \E d \in Digests : StartPut(p, r, d)

Next == \E p \in Procs : Start(p) \/ Continue(p) \/ Crash(p)

Spec == Init /\ [][Next]_vars

\* A process that has started an operation is scheduled until it ends.
FairSpec == Spec /\ \A p \in Procs : WF_vars(Continue(p))

-----------------------------------------------------------------------------
(* replay_verify: the mirror must have the events of the table in its      *)
(* order, and every artifact row's blob must read back from the CAS and    *)
(* from the run's mirror.                                                  *)

EventMirrorVerifies(r) == mirror[r] # <<>> /\ mirror[r] = events[r]

ReadsBack(r, d) == path[<<Cas, d>>] = "whole" /\ path[<<r, d>>] = "whole"

ReplayVerifies(r) ==
  /\ EventMirrorVerifies(r)
  /\ \A d \in Digests : <<r, d>> \in rows => ReadsBack(r, d)

Quiescent == \A p \in Procs : job[p] = Idle

InFlight(r) == {p \in Procs : job[p].step = "append" /\ job[p].run = r}

-----------------------------------------------------------------------------
(* Properties.                                                             *)

\* Every line of a run's events.jsonl is an event committed for that run, and
\* no event has two lines: append_event commits first and appends once.
MirrorSound ==
  \A r \in Runs :
    /\ Lines(mirror[r]) \subseteq Lines(events[r])
    /\ \A i, k \in DOMAIN mirror[r] : mirror[r][i] = mirror[r][k] => i = k

\* A committed event without its line is one that append_event is about to
\* write, or was lost with a process: at most one per death.
MirrorGapsBounded ==
  \A r \in Runs :
    Cardinality(Lines(events[r]) \ Lines(mirror[r]))
      <= Cardinality(InFlight(r)) + crashes

\* An artifact row never refers to a blob that was not published, in the CAS
\* and in its own run's mirror: put_artifact inserts the row last.
RowsHaveBlobs ==
  \A r \in Runs, d \in Digests :
    <<r, d>> \in rows => path[<<Cas, d>>] # "absent" /\ path[<<r, d>>] # "absent"

\* As long as no process dies, an incomplete published blob has a writer that
\* is about to complete it.
TornBlobHasWriter ==
  crashes = 0 =>
    \A pl \in Places :
      path[pl] = "torn" =>
        \E p \in Procs : job[p].step = "write" /\ job[p].fd = "path" /\ Place(job[p]) = pl

\* meta.json is the run's latest row, except while the owner is publishing it
\* or after a death in between.
MetaIsLatest ==
  crashes = 0 =>
    \A r \in Runs :
      meta[r] # row[r] => job[Owner[r]].step = "meta" /\ job[Owner[r]].run = r

\* What put_artifact promises of blobs, whoever else writes the same one.
BlobsSound == RowsHaveBlobs /\ TornBlobHasWriter

\* What is written beside the tables, events.jsonl and meta.json, is behind them by no
\* more than what is being written and what went with a process.
MirrorsUpToDate == MirrorGapsBounded /\ MetaIsLatest

\* Nothing is withdrawn: the event table and its mirror only grow at their
\* end, artifact rows stay, and a published blob stays published.
Prefix(s, t) == Len(s) <= Len(t) /\ \A i \in DOMAIN s : t[i] = s[i]

AppendOnly ==
  [][ /\ \A r \in Runs : Prefix(events[r], events'[r]) /\ Prefix(mirror[r], mirror'[r])
      /\ rows \subseteq rows'
      /\ \A pl \in Places : path[pl] # "absent" => path'[pl] # "absent" ]_vars

\* The event stream of each run is one EventStream.
Stream == INSTANCE EventStream
            WITH log <- events, mirrored <- [r \in Runs |-> Lines(mirror[r])]

ImplementsEventStream == Stream!Spec

\* If nothing dies, every committed event reaches events.jsonl.
EventsReachMirror ==
  \A r \in Runs, e \in EventIds :
    e \in Lines(events[r]) ~> (e \in Lines(mirror[r]) \/ crashes > 0)

\* If nothing dies, every row's blob eventually reads back, from the CAS and
\* from the run's mirror, even when writers of one digest collided.
RowsEventuallyRead ==
  \A r \in Runs, d \in Digests :
    <<r, d>> \in rows ~> (ReadsBack(r, d) \/ crashes > 0)

\* With one process on a run and no death, `replay --verify` accepts the run
\* whenever no operation is under way.
SingleWriterVerifies ==
  \A r \in Runs :
    crashes = 0 /\ Quiescent /\ events[r] # <<>> => ReplayVerifies(r)

\* With one process at a time, a death never leaves a published blob
\* incomplete: the next writer starts the temporary file again.
PublishedBlobsWhole == \A pl \in Places : path[pl] # "torn"

\* docs/ARCHITECTURE.md:10 says that events.jsonl stores the append-only event
\* stream and :19 that replay --verify checks it; tests/test_store.py:41
\* requires that several writers may append to one run.
MirrorVerifiesAtRest ==
  Quiescent => \A r \in Runs : events[r] # <<>> => EventMirrorVerifies(r)

\* docs/ARCHITECTURE.md:8: the CAS stores durable payloads by SHA-256; a row is
\* inserted after its payload was written, so it should read back from then on.
RowsReadAtRest ==
  Quiescent => \A r \in Runs, d \in Digests : <<r, d>> \in rows => ReadsBack(r, d)
=============================================================================
