------------------------------ MODULE RepoGraph ------------------------------
(***************************************************************************)
(* The in-memory index of a repository's source files                      *)
(* (src/src/poor_cli/repo_graph.py:RepoGraph, GraphWatch): built once, and *)
(* refreshed before every graph query and by an optional watcher thread.   *)
(* A refresh compares the files' signatures with those it saw last and     *)
(* parses the files whose signature differs.                               *)
(*                                                                         *)
(* Refreshes and queries exclude each other by the graph's lock; what runs *)
(* beside them is the file system.  A file's contents and its signature    *)
(* (mtime, size) are one version number, new at every edit, 0 if the file  *)
(* is absent.  Files are handled one by one, in an order left open.        *)
(***************************************************************************)
EXTENDS Naturals, FiniteSets

CONSTANTS
  Files,             \* source files with a known extension
  MaxEdits,          \* bound on the changes to files
  EditsDuringBuild   \* whether files may change while build_index runs

ASSUME GraphAssumption == MaxEdits \in Nat /\ EditsDuringBuild \in BOOLEAN

VARIABLES
  disk,      \* the version of each file
  modules,   \* the version each module was parsed from
  index,     \* the same of the symbols in the symbol index
  print,     \* the fingerprint: the signature of each file when last seen
  job,       \* what the thread that holds the lock is doing
  watching,  \* the watcher thread is alive
  edits,     \* changes so far
  quiet,     \* no file changed since the lock was taken
  raised     \* some refresh has raised

vars == <<disk, modules, index, print, job, watching, edits, quiet, raised>>

Absent   == [f \in Files |-> 0]
Versions == [Files -> 0..MaxEdits + 1]
Present(m) == {f \in Files : m[f] # 0}

\* step   "scan" and "parse" of a refresh, "build" and "stamp" of build_index
\* todo   the files still to do in this step
\* seen   the signatures, or in "build" the modules, found so far
Free == [step |-> "free", who |-> "query", todo |-> {}, seen |-> Absent]
Jobs == [step : {"free", "scan", "parse", "build", "stamp"}, who : {"query", "watcher"},
         todo : SUBSET Files, seen : Versions]

TypeOK ==
  /\ disk \in Versions /\ modules \in Versions /\ index \in Versions /\ print \in Versions
  /\ job \in Jobs
  /\ watching \in BOOLEAN /\ quiet \in BOOLEAN /\ raised \in BOOLEAN
  /\ edits \in 0..MaxEdits

Init ==
  /\ disk \in [Files -> {0, 1}]
  /\ modules = Absent /\ index = Absent /\ print = Absent
  /\ job = [Free EXCEPT !.step = "build", !.todo = Present(disk)]
  /\ watching = TRUE /\ edits = 0 /\ quiet = TRUE /\ raised = FALSE

graph == <<modules, index, print>>
world == <<disk, edits>>

At(step)     == job.step = step
Finished(s)  == At(s) /\ job.todo = {}
Did(f)       == [job EXCEPT !.todo = @ \ {f}]
Release      == job' = Free
Keep(f, v)   == [Did(f) EXCEPT !.seen[f] = v]

-----------------------------------------------------------------------------
(* The file system.                                                        *)

Change(f, version) ==
  /\ edits < MaxEdits /\ disk[f] # version
  /\ EditsDuringBuild \/ ~(At("build") \/ At("stamp"))
  /\ disk' = [disk EXCEPT ![f] = version]
  /\ edits' = edits + 1 /\ quiet' = FALSE
  /\ UNCHANGED <<graph, job, watching, raised>>

Write(f)  == Change(f, edits + 2)
Delete(f) == Change(f, 0)

-----------------------------------------------------------------------------
(* refresh_if_stale.                                                       *)

\* Before a query, or at the watcher's interval: the files are listed.
Refresh(who) ==
  /\ At("free") /\ (who = "watcher" => watching)
  /\ job' = [Free EXCEPT !.step = "scan", !.who = who, !.todo = Present(disk)]
  /\ quiet' = TRUE
  /\ UNCHANGED <<graph, world, watching, raised>>

\* A file that is gone since is passed over.
Stat(f) ==
  /\ At("scan") /\ f \in job.todo
  /\ job' = Keep(f, disk[f])
  /\ UNCHANGED <<graph, world, watching, quiet, raised>>

UpToDate ==
  /\ Finished("scan") /\ job.seen = print
  /\ Release
  /\ UNCHANGED <<graph, world, watching, quiet, raised>>

\* An empty graph is built anew, with a listing of its own.
Rebuild ==
  /\ Finished("scan") /\ job.seen # print /\ modules = Absent
  /\ job' = [job EXCEPT !.step = "build", !.todo = Present(disk), !.seen = Absent]
  /\ UNCHANGED <<graph, world, watching, quiet, raised>>

\* Mutant: modules of removed files stay.
StaleOnly ==
  /\ Finished("scan") /\ job.seen # print /\ modules # Absent
  /\ job' = [job EXCEPT !.step = "parse",
               !.todo = {f \in Present(job.seen) : print[f] # job.seen[f]}]
  /\ UNCHANGED <<graph, world, watching, quiet, raised>>

Stale ==
  /\ Finished("scan") /\ job.seen # print /\ modules # Absent
  /\ modules' = [f \in Files |-> IF print[f] # 0 /\ job.seen[f] = 0 THEN 0 ELSE modules[f]]
  /\ job' = [job EXCEPT !.step = "parse",
               !.todo = {f \in Present(job.seen) : print[f] # job.seen[f]}]
  /\ UNCHANGED <<index, print, world, watching, quiet, raised>>

\* Mutant: the signature is taken when the file is parsed.
ParseAndStat(f) ==
  /\ At("parse") /\ f \in job.todo /\ disk[f] # 0
  /\ modules' = [modules EXCEPT ![f] = job.seen[f]]
  /\ job' = Keep(f, disk[f])
  /\ UNCHANGED <<index, print, world, watching, quiet, raised>>

Parse(f) ==
  /\ At("parse") /\ f \in job.todo /\ disk[f] # 0
  /\ modules' = [modules EXCEPT ![f] = disk[f]]
  /\ job' = Did(f)
  /\ UNCHANGED <<index, print, world, watching, quiet, raised>>

Refreshed ==
  /\ Finished("parse")
  /\ index' = modules /\ print' = job.seen
  /\ Release
  /\ UNCHANGED <<modules, world, watching, quiet, raised>>

-----------------------------------------------------------------------------
(* build_index: parse every file, then take the signatures.                *)

Build(f) ==
  /\ At("build") /\ f \in job.todo /\ disk[f] # 0
  /\ job' = Keep(f, disk[f])
  /\ UNCHANGED <<graph, world, watching, quiet, raised>>

\* The files to stamp are those that were listed, which were all parsed.
Built ==
  /\ Finished("build")
  /\ modules' = job.seen /\ index' = job.seen
  /\ job' = [job EXCEPT !.step = "stamp", !.todo = Present(job.seen), !.seen = Absent]
  /\ UNCHANGED <<print, world, watching, quiet, raised>>

Stamp(f) ==
  /\ At("stamp") /\ f \in job.todo
  /\ job' = Keep(f, disk[f])
  /\ UNCHANGED <<graph, world, watching, quiet, raised>>

Stamped ==
  /\ Finished("stamp")
  /\ print' = job.seen
  /\ Release
  /\ UNCHANGED <<modules, index, world, watching, quiet, raised>>

\* Reading a file that is gone raises: what is done stays done, the query fails
\* and the watcher's thread ends.
Raises(f) ==
  /\ (At("parse") \/ At("build")) /\ f \in job.todo /\ disk[f] = 0
  /\ raised' = TRUE
  /\ watching' = (watching /\ job.who # "watcher")
  /\ Release
  /\ UNCHANGED <<graph, world, quiet>>

Work ==
  \/ UpToDate \/ Rebuild \/ Stale \/ Refreshed \/ Built \/ Stamped
  \/ \E f \in Files : Stat(f) \/ Parse(f) \/ Build(f) \/ Stamp(f) \/ Raises(f)

Next ==
  \/ Work
  \/ \E who \in {"query", "watcher"} : Refresh(who)
  \/ \E f \in Files : Write(f) \/ Delete(f)

Spec == Init /\ [][Next]_vars

\* The thread that holds the lock runs, and a live watcher polls.
FairSpec == Spec /\ WF_vars(Work) /\ WF_vars(Refresh("watcher"))

-----------------------------------------------------------------------------
\* A file whose signature is the one last seen was parsed from those contents:
\* no edit is taken for seen that was not, even after a refresh that raised
\* half-way.  Otherwise no later refresh would find it.
SeenIsParsed ==
  At("free") => \A f \in Files : print[f] # 0 /\ print[f] = disk[f] => modules[f] = disk[f]

\* Queries find one graph: while no refresh has raised, symbols, modules and
\* fingerprint are about the same files, and symbols and modules agree.
OneGraph ==
  At("free") /\ ~raised => index = modules /\ Present(modules) = Present(print)

\* What a query may rely on.
GraphSound == SeenIsParsed /\ OneGraph

\* docs/ARCHITECTURE.md:32, "incrementally refresh changed graph files before
\* uncached queries": a refresh during which no file changed leaves the graph of
\* the files that are there.
Returns == ~At("free") /\ At("free")'
FollowsDisk == modules' = disk' /\ index' = disk'

RefreshFollowsDisk == [][Returns /\ quiet /\ ~raised' => FollowsDisk]_vars

\* The same, also when an earlier refresh had raised.
RetryFollowsDisk == [][Returns /\ quiet /\ (raised' => raised) => FollowsDisk]_vars

\* With a watcher the graph settles on the files once they stop changing, without
\* a query, as long as none vanished while it was refreshing.
WatcherCatchesUp == <>[](raised \/ modules = disk)
=============================================================================
