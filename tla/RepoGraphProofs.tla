--------------------------- MODULE RepoGraphProofs ---------------------------
(***************************************************************************)
(* For any files and any number of edits, as long as none comes while      *)
(* build_index runs: no edit is taken for seen that was not parsed,        *)
(* queries find one graph, and a refresh that nothing disturbed leaves the *)
(* graph of the files on disk.                                             *)
(***************************************************************************)
EXTENDS RepoGraph, TLAPS

-----------------------------------------------------------------------------
(* Types.                                                                  *)

\* Every variable keeps to its values.
THEOREM TypeCorrect == Spec => []TypeOK
<1>1. Init => TypeOK
  <2> SUFFICES ASSUME Init PROVE TypeOK OBVIOUS
  <2>1. Absent \in Versions /\ disk \in Versions
    BY GraphAssumption DEF Init, Absent, Versions
  <2>2. job \in Jobs
    BY <2>1 DEF Init, Free, Jobs, Present
  <2>3. 0 \in 0..MaxEdits
    BY GraphAssumption
  <2>4. watching \in BOOLEAN /\ quiet \in BOOLEAN /\ raised \in BOOLEAN
    BY DEF Init
  <2> QED BY <2>1, <2>2, <2>3, <2>4 DEF Init, TypeOK
<1>2. TypeOK /\ [Next]_vars => TypeOK'
  <2> SUFFICES ASSUME TypeOK, [Next]_vars PROVE TypeOK' OBVIOUS
  <2>0. /\ Absent \in Versions /\ Free \in Jobs
        /\ \A m \in Versions : Present(m) \subseteq Files
    BY GraphAssumption DEF Absent, Versions, Free, Jobs, Present
  <2>1. ASSUME NEW f \in Files, NEW v \in Versions
        PROVE  Keep(f, v[f]) \in Jobs /\ Did(f) \in Jobs
    <3>1. [job.seen EXCEPT ![f] = v[f]] \in Versions /\ job \in Jobs
      BY DEF TypeOK, Jobs, Versions
    <3> QED BY <3>1 DEF Keep, Did, Jobs
  <2>2. ASSUME NEW f \in Files, NEW version \in 0..(MaxEdits + 1), Change(f, version) PROVE TypeOK'
    <3>1. disk' \in Versions /\ edits' \in 0..MaxEdits
      BY <2>2, GraphAssumption DEF Change, TypeOK, Versions
    <3> QED BY <2>2, <3>1 DEF Change, TypeOK, graph
  <2>3. ASSUME NEW f \in Files, Write(f) \/ Delete(f) PROVE TypeOK'
    <3>1. CASE Write(f)
      <4>1. edits < MaxEdits /\ edits \in 0..MaxEdits
        BY <3>1 DEF Write, Change, TypeOK
      <4>2. edits + 2 \in 0..(MaxEdits + 1)
        BY <4>1, GraphAssumption
      <4> QED BY <2>2, <3>1, <4>2 DEF Write
    <3>2. CASE Delete(f)
      BY <2>2, <3>2, GraphAssumption DEF Delete
    <3> QED BY <2>3, <3>1, <3>2
  <2>4. ASSUME NEW who \in {"query", "watcher"}, Refresh(who) PROVE TypeOK'
    <3>1. job' \in Jobs
      BY <2>0, <2>4 DEF Refresh, TypeOK, Jobs, Free
    <3> QED BY <2>4, <3>1 DEF Refresh, TypeOK, graph, world
  <2>5. CASE UpToDate \/ Refreshed \/ Stamped
    <3>1. job.seen \in Versions BY DEF TypeOK, Jobs
    <3> QED BY <2>0, <2>5, <3>1 DEF UpToDate, Refreshed, Stamped, Release, TypeOK, graph, world
  <2>6. CASE Rebuild
    <3>1. job' \in Jobs BY <2>0, <2>6 DEF Rebuild, TypeOK, Jobs
    <3> QED BY <2>6, <3>1 DEF Rebuild, TypeOK, graph, world
  <2>7. CASE Stale
    <3>1. job' \in Jobs BY <2>0, <2>7 DEF Stale, TypeOK, Jobs
    <3>2. modules' \in Versions BY <2>7, GraphAssumption DEF Stale, TypeOK, Versions
    <3> QED BY <2>7, <3>1, <3>2 DEF Stale, TypeOK, world
  <2>8. CASE Built
    <3>1. job' \in Jobs BY <2>0, <2>8 DEF Built, TypeOK, Jobs
    <3>2. job.seen \in Versions BY DEF TypeOK, Jobs
    <3> QED BY <2>8, <3>1, <3>2 DEF Built, TypeOK, world
  <2>9. ASSUME NEW f \in Files, Stat(f) \/ Build(f) \/ Stamp(f) PROVE TypeOK'
    BY <2>1, <2>9 DEF Stat, Build, Stamp, TypeOK, graph, world
  <2>10. ASSUME NEW f \in Files, Parse(f) PROVE TypeOK'
    <3>1. modules' \in Versions BY <2>10 DEF Parse, TypeOK, Versions
    <3> QED BY <2>1, <2>10, <3>1 DEF Parse, TypeOK, world
  <2>11. ASSUME NEW f \in Files, Raises(f) PROVE TypeOK'
    BY <2>0, <2>11 DEF Raises, Release, TypeOK, graph, world
  <2>12. CASE UNCHANGED vars
    BY <2>12 DEF vars, TypeOK
  <2> QED
    BY <2>3, <2>4, <2>5, <2>6, <2>7, <2>8, <2>9, <2>10, <2>11, <2>12 DEF Next, Work
<1> QED
  BY <1>1, <1>2, PTL DEF Spec

-----------------------------------------------------------------------------
(* What the graph knows.                                                   *)

\* Whatever was seen of a file is not newer than the file.
Known(v) == \A f \in Files : v[f] <= edits + 1 /\ (disk[f] # 0 => v[f] <= disk[f])

\* The graph is that of the files it has signatures of, until a refresh raises.
Whole == ~raised => index = modules /\ Present(modules) = Present(print)

\* A file that is still as it was last seen was parsed so.
Parsed == \A f \in Files : print[f] # 0 /\ print[f] = disk[f] => modules[f] = disk[f]

\* In a scan: a file that was not found may have come back since, as a newer one.
ScanInv ==
  At("scan") =>
    /\ Parsed /\ Whole
    /\ \A f \in Files \ job.todo :
         /\ job.seen[f] = 0 => disk[f] = 0 \/ disk[f] > print[f]
         /\ quiet => job.seen[f] = disk[f]
    /\ quiet => \A f \in Files : disk[f] = 0 => job.seen[f] = 0

\* While files are parsed: what is done is as new as its signature, or newer.
ParseInv ==
  At("parse") =>
    /\ Parsed
    /\ job.todo \subseteq Present(job.seen)
    /\ \A f \in Files \ job.todo :
         job.seen[f] # 0 /\ job.seen[f] = disk[f] => modules[f] = disk[f]
    /\ ~raised => Present(modules) \cup job.todo = Present(job.seen)
    /\ quiet => job.seen = disk

\* During a build nothing changes.
BuildInv ==
  /\ At("build") =>
       /\ job.todo \subseteq Present(disk)
       /\ \A f \in Files \ job.todo : job.seen[f] = disk[f]
  /\ At("stamp") =>
       /\ modules = disk /\ index = disk
       /\ job.todo \subseteq Present(disk)
       /\ \A f \in Files \ job.todo : job.seen[f] = disk[f]

GraphInv ==
  /\ Known(print) /\ Known(job.seen) /\ \A f \in Files : disk[f] <= edits + 1
  /\ At("free") => Parsed /\ Whole
  /\ ScanInv /\ ParseInv /\ BuildInv

\* The values of the types, file by file.
LEMMA Numbers ==
  ASSUME TypeOK
  PROVE  /\ edits \in Nat
         /\ \A f \in Files : /\ disk[f] \in Nat /\ modules[f] \in Nat /\ print[f] \in Nat
                            /\ job.seen[f] \in Nat
  BY GraphAssumption DEF TypeOK, Jobs, Versions

\* Versions are equal if they are so file by file.
LEMMA SameVersions ==
  ASSUME NEW v \in Versions, NEW w \in Versions, \A f \in Files : v[f] = w[f]
  PROVE  v = w
  BY DEF Versions

\* An edit is newer than anything that was seen of the file.
LEMMA ChangeStep ==
  ASSUME TypeOK, GraphInv, ~EditsDuringBuild, NEW f \in Files, Write(f) \/ Delete(f)
  PROVE  GraphInv'
<1>1. /\ disk'[f] = 0 \/ disk'[f] = edits + 2
      /\ \A g \in Files \ {f} : disk'[g] = disk[g]
      /\ edits' = edits + 1 /\ quiet' = FALSE /\ ~At("build") /\ ~At("stamp")
      /\ UNCHANGED <<modules, index, print, job, watching, raised>>
  BY DEF Write, Delete, Change, TypeOK, Versions, graph
<1>2. Known(print)' /\ Known(job.seen)' /\ \A g \in Files : disk'[g] <= edits' + 1
  <2>1. Known(print) /\ Known(job.seen)
    BY DEF GraphInv
  <2>2. \A g \in Files : disk'[g] <= edits' + 1
    BY <1>1, Numbers DEF GraphInv
  <2>3. Known(print)' /\ Known(job.seen)'
    BY <1>1, <2>1, Numbers DEF Known
  <2> QED BY <2>2, <2>3
<1>3. Parsed => Parsed'
  BY <1>1, Numbers DEF Parsed, GraphInv, Known
<1>4. Whole => Whole'
  BY <1>1 DEF Whole, Present
<1>5. ScanInv'
  <2> SUFFICES ASSUME At("scan") PROVE ScanInv'
    BY <1>1 DEF ScanInv, At
  <2>1. \A g \in Files \ job.todo : job.seen[g] = 0 => disk'[g] = 0 \/ disk'[g] > print[g]
    BY <1>1, Numbers DEF GraphInv, ScanInv, Known
  <2> QED BY <1>1, <1>3, <1>4, <2>1 DEF GraphInv, ScanInv
<1>6. ParseInv'
  <2> SUFFICES ASSUME At("parse") PROVE ParseInv'
    BY <1>1 DEF ParseInv, At
  <2>1. \A g \in Files \ job.todo :
          job.seen[g] # 0 /\ job.seen[g] = disk'[g] => modules[g] = disk'[g]
    BY <1>1, Numbers DEF GraphInv, ParseInv, Known
  <2> QED BY <1>1, <1>3, <2>1 DEF GraphInv, ParseInv, Present
<1>7. BuildInv' /\ (At("free") => Parsed /\ Whole)'
  BY <1>1, <1>3, <1>4 DEF GraphInv, BuildInv, At
<1> QED
  BY <1>2, <1>5, <1>6, <1>7 DEF GraphInv

\* A scan that is begun and made.
LEMMA ScanStep ==
  ASSUME TypeOK, GraphInv,
         (\E who \in {"query", "watcher"} : Refresh(who)) \/ (\E f \in Files : Stat(f)) \/ UpToDate
  PROVE  GraphInv'
<1>1. ASSUME NEW who \in {"query", "watcher"}, Refresh(who) PROVE GraphInv'
  <2>1. /\ At("free") /\ job'.step = "scan" /\ job'.todo = Present(disk) /\ job'.seen = Absent
        /\ UNCHANGED <<disk, modules, index, print, watching, edits, raised>>
    BY <1>1 DEF Refresh, Free, graph, world
  <2>2. \A f \in Files \ job'.todo : disk[f] = 0
    BY <2>1 DEF Present
  <2>3. Known(job.seen)' /\ Known(print)'
    BY <2>1, Numbers DEF GraphInv, Known, Absent
  <2>4. Parsed' /\ Whole'
    BY <2>1 DEF GraphInv, Parsed, Whole, Present
  <2>5. ScanInv'
    BY <2>1, <2>2, <2>4 DEF ScanInv, Absent
  <2> QED BY <2>1, <2>3, <2>4, <2>5 DEF GraphInv, ParseInv, BuildInv, At
<1>2. ASSUME NEW f \in Files, Stat(f) PROVE GraphInv'
  <2>1. /\ At("scan") /\ job'.step = "scan" /\ job'.todo = job.todo \ {f}
        /\ job'.seen = [job.seen EXCEPT ![f] = disk[f]]
        /\ UNCHANGED <<disk, modules, index, print, watching, edits, quiet, raised>>
    BY <1>2 DEF Stat, Keep, Did, At, graph, world, TypeOK, Jobs
  <2>2. job'.seen[f] = disk[f] /\ \A g \in Files \ {f} : job'.seen[g] = job.seen[g]
    BY <2>1 DEF TypeOK, Jobs, Versions
  <2>3. Known(job.seen)' /\ Known(print)'
    BY <2>1, <2>2, Numbers DEF GraphInv, Known
  <2>4. Parsed' /\ Whole'
    BY <2>1 DEF GraphInv, ScanInv, Parsed, Whole, Present
  <2>5. ScanInv'
    BY <2>1, <2>2, <2>4 DEF GraphInv, ScanInv
  <2> QED BY <2>1, <2>3, <2>4, <2>5 DEF GraphInv, ParseInv, BuildInv, At
<1>3. CASE UpToDate
  <2>1. /\ At("scan") /\ job'.step = "free" /\ job'.seen = Absent
        /\ UNCHANGED <<disk, modules, index, print, watching, edits, quiet, raised>>
    BY <1>3 DEF UpToDate, Finished, Release, Free, graph, world
  <2>2. Known(job.seen)' /\ Known(print)'
    BY <2>1, Numbers DEF GraphInv, Known, Absent
  <2>3. Parsed' /\ Whole'
    BY <2>1 DEF GraphInv, ScanInv, Parsed, Whole, Present
  <2> QED BY <2>1, <2>2, <2>3 DEF GraphInv, ScanInv, ParseInv, BuildInv, At
<1> QED
  BY <1>1, <1>2, <1>3

\* A build that is begun, made and stamped.
LEMMA BuildStep ==
  ASSUME TypeOK, GraphInv,
         Rebuild \/ Built \/ Stamped \/ (\E f \in Files : Build(f) \/ Stamp(f))
  PROVE  GraphInv'
<1>1. CASE Rebuild
  <2>1. /\ At("scan") /\ job'.step = "build" /\ job'.todo = Present(disk) /\ job'.seen = Absent
        /\ UNCHANGED <<disk, modules, index, print, watching, edits, quiet, raised>>
    BY <1>1 DEF Rebuild, Finished, graph, world, TypeOK, Jobs
  <2>2. Known(job.seen)' /\ Known(print)'
    BY <2>1, Numbers DEF GraphInv, Known, Absent
  <2>3. BuildInv'
    BY <2>1 DEF BuildInv, Present, Absent, At
  <2> QED BY <2>1, <2>2, <2>3 DEF GraphInv, ScanInv, ParseInv, At
<1>2. CASE Built
  <2>1. /\ At("build") /\ job.todo = {} /\ job'.step = "stamp" /\ job'.seen = Absent
        /\ job'.todo = Present(job.seen) /\ modules' = job.seen /\ index' = job.seen
        /\ UNCHANGED <<disk, print, watching, edits, quiet, raised>>
    BY <1>2 DEF Built, Finished, At, world, TypeOK, Jobs
  <2>2. job.seen = disk
    BY <2>1, SameVersions DEF GraphInv, BuildInv, TypeOK, Jobs
  <2>3. Known(job.seen)' /\ Known(print)'
    BY <2>1, Numbers DEF GraphInv, Known, Absent
  <2>4. BuildInv'
    BY <2>1, <2>2 DEF BuildInv, Present, Absent, At
  <2> QED BY <2>1, <2>3, <2>4 DEF GraphInv, ScanInv, ParseInv, At
<1>3. CASE Stamped
  <2>1. /\ At("stamp") /\ job.todo = {} /\ job'.step = "free" /\ job'.seen = Absent
        /\ print' = job.seen
        /\ UNCHANGED <<disk, modules, index, watching, edits, quiet, raised>>
    BY <1>3 DEF Stamped, Finished, Release, Free, world
  <2>2. job.seen = disk /\ modules = disk /\ index = disk
    BY <2>1, SameVersions DEF GraphInv, BuildInv, TypeOK, Jobs
  <2>3. Known(job.seen)' /\ Known(print)'
    BY <2>1, Numbers DEF GraphInv, Known, Absent
  <2>4. Parsed' /\ Whole'
    BY <2>1, <2>2 DEF Parsed, Whole, Present
  <2> QED BY <2>1, <2>3, <2>4 DEF GraphInv, ScanInv, ParseInv, BuildInv, At
<1>4. ASSUME NEW f \in Files, Build(f) \/ Stamp(f) PROVE GraphInv'
  <2>1. /\ job.step \in {"build", "stamp"} /\ job'.step = job.step /\ job'.todo = job.todo \ {f}
        /\ job'.seen = [job.seen EXCEPT ![f] = disk[f]]
        /\ UNCHANGED <<disk, modules, index, print, watching, edits, quiet, raised>>
    BY <1>4 DEF Build, Stamp, Keep, Did, At, graph, world, TypeOK, Jobs
  <2>2. job'.seen[f] = disk[f] /\ \A g \in Files \ {f} : job'.seen[g] = job.seen[g]
    BY <2>1 DEF TypeOK, Jobs, Versions
  <2>3. Known(job.seen)' /\ Known(print)'
    BY <2>1, <2>2, Numbers DEF GraphInv, Known
  <2>4. BuildInv'
    BY <2>1, <2>2 DEF GraphInv, BuildInv, Present, At
  <2> QED BY <2>1, <2>3, <2>4 DEF GraphInv, ScanInv, ParseInv, At
<1> QED
  BY <1>1, <1>2, <1>3, <1>4

\* Parsing, to its end or to a file that has gone.
LEMMA ParseStep ==
  ASSUME TypeOK, GraphInv,
         Stale \/ Refreshed \/ (\E f \in Files : Parse(f) \/ Raises(f))
  PROVE  GraphInv'
<1>1. CASE Stale
  <2>1. /\ At("scan") /\ job.todo = {} /\ job'.step = "parse" /\ job'.seen = job.seen
        /\ job'.todo = {f \in Present(job.seen) : print[f] # job.seen[f]}
        /\ modules' = [f \in Files |-> IF print[f] # 0 /\ job.seen[f] = 0 THEN 0 ELSE modules[f]]
        /\ UNCHANGED <<disk, index, print, watching, edits, quiet, raised>>
    BY <1>1 DEF Stale, Finished, At, world, TypeOK, Jobs
  <2>2. Parsed'
    <3> SUFFICES ASSUME NEW f \in Files, print[f] # 0, print[f] = disk[f] PROVE modules'[f] = disk[f]
      BY <2>1 DEF Parsed
    <3>1. job.seen[f] # 0
      BY <2>1, Numbers DEF GraphInv, ScanInv
    <3> QED BY <2>1, <3>1 DEF GraphInv, ScanInv, Parsed
  <2>3. \A f \in Files \ job'.todo :
          job.seen[f] # 0 /\ job.seen[f] = disk[f] => modules'[f] = disk[f]
    BY <2>1, <2>2 DEF Parsed, Present
  <2>4. ~raised => Present(modules') \cup job'.todo = Present(job.seen)
    <3> SUFFICES ASSUME ~raised, NEW f \in Files
                 PROVE  modules'[f] # 0 \/ f \in job'.todo <=> job.seen[f] # 0
      BY <2>1 DEF Present
    <3>1. modules[f] # 0 <=> print[f] # 0
      BY <2>1 DEF GraphInv, ScanInv, Whole, Present
    <3> QED BY <2>1, <3>1 DEF Present
  <2>5. quiet => job.seen = disk
    BY <2>1, SameVersions DEF GraphInv, ScanInv, TypeOK, Jobs
  <2>6. ParseInv'
    BY <2>1, <2>2, <2>3, <2>4, <2>5 DEF ParseInv, Present
  <2> QED BY <2>1, <2>6 DEF GraphInv, ScanInv, BuildInv, Known, At
<1>2. ASSUME NEW f \in Files, Parse(f) PROVE GraphInv'
  <2>1. /\ At("parse") /\ f \in job.todo /\ disk[f] # 0
        /\ job'.step = "parse" /\ job'.seen = job.seen /\ job'.todo = job.todo \ {f}
        /\ modules'[f] = disk[f] /\ \A g \in Files \ {f} : modules'[g] = modules[g]
        /\ UNCHANGED <<disk, index, print, watching, edits, quiet, raised>>
    BY <1>2 DEF Parse, Did, At, world, TypeOK, Jobs, Versions
  <2>2. Parsed'
    BY <2>1 DEF GraphInv, ParseInv, Parsed
  <2>3. Present(modules)' = Present(modules) \cup {f}
    BY <2>1 DEF Present
  <2>4. ParseInv'
    BY <2>1, <2>2, <2>3 DEF GraphInv, ParseInv, Present
  <2> QED BY <2>1, <2>4 DEF GraphInv, ScanInv, BuildInv, Known, At
<1>3. CASE Refreshed
  <2>1. /\ At("parse") /\ job.todo = {} /\ job'.step = "free" /\ job'.seen = Absent
        /\ index' = modules /\ print' = job.seen
        /\ UNCHANGED <<disk, modules, watching, edits, quiet, raised>>
    BY <1>3 DEF Refreshed, Finished, Release, Free, world
  <2>2. Known(job.seen)' /\ Known(print)'
    BY <2>1, Numbers DEF GraphInv, Known, Absent
  <2>3. Parsed' /\ Whole'
    BY <2>1 DEF GraphInv, ParseInv, Parsed, Whole, Present
  <2> QED BY <2>1, <2>2, <2>3 DEF GraphInv, ScanInv, ParseInv, BuildInv, At
<1>4. ASSUME NEW f \in Files, Raises(f) PROVE GraphInv'
  <2>1. /\ At("parse") \/ At("build")
        /\ f \in job.todo /\ disk[f] = 0
        /\ job'.step = "free" /\ job'.seen = Absent /\ raised' = TRUE
        /\ UNCHANGED <<disk, modules, index, print, edits, quiet>>
    BY <1>4 DEF Raises, Release, Free, graph, world
  <2>2. At("parse")
    BY <2>1 DEF GraphInv, BuildInv, Present
  <2>3. Known(job.seen)' /\ Known(print)'
    BY <2>1, Numbers DEF GraphInv, Known, Absent
  <2>4. Parsed' /\ Whole'
    BY <2>1, <2>2 DEF GraphInv, ParseInv, Parsed, Whole
  <2> QED BY <2>1, <2>3, <2>4 DEF GraphInv, ScanInv, ParseInv, BuildInv, At
<1> QED
  BY <1>1, <1>2, <1>3, <1>4

\* All of it together.
LEMMA GraphHolds ==
  ASSUME ~EditsDuringBuild
  PROVE  Spec => []GraphInv
<1>1. Init => GraphInv
  <2> SUFFICES ASSUME Init PROVE GraphInv OBVIOUS
  <2>1. At("build") /\ job.todo = Present(disk) /\ job.seen = Absent
    BY DEF Init, Free, At
  <2>2. Known(print) /\ Known(job.seen) /\ \A f \in Files : disk[f] <= edits + 1
    BY <2>1 DEF Init, Known, Absent
  <2>3. BuildInv
    BY <2>1 DEF BuildInv, At, Present, Absent
  <2> QED BY <2>1, <2>2, <2>3 DEF GraphInv, ScanInv, ParseInv, At
<1>2. TypeOK /\ GraphInv /\ [Next]_vars => GraphInv'
  <2> SUFFICES ASSUME TypeOK, GraphInv, [Next]_vars PROVE GraphInv' OBVIOUS
  <2>1. CASE UNCHANGED vars
    BY <2>1 DEF vars, GraphInv, Known, Parsed, Whole, ScanInv, ParseInv, BuildInv, At, Present
  <2>2. CASE Next
    BY <2>2, ChangeStep, ScanStep, BuildStep, ParseStep DEF Next, Work
  <2> QED BY <2>1, <2>2
<1> QED
  BY <1>1, <1>2, TypeCorrect, PTL DEF Spec

\* Between refreshes no edit is taken for seen that was not parsed, and, until one
\* raises, queries find one graph.
THEOREM GraphIsSound ==
  ASSUME ~EditsDuringBuild
  PROVE  Spec => []GraphSound
<1>1. GraphInv => GraphSound
  BY DEF GraphInv, GraphSound, SeenIsParsed, OneGraph, Parsed, Whole
<1> QED
  BY <1>1, GraphHolds, PTL

\* A refresh that no edit disturbs, and that follows none that raised, leaves the graph
\* of the files on disk.
THEOREM RefreshesFollow ==
  ASSUME ~EditsDuringBuild
  PROVE  Spec => RefreshFollowsDisk
<1> DEFINE Follows == Returns /\ quiet /\ ~raised' => FollowsDisk
<1>1. TypeOK /\ GraphInv /\ [Next]_vars => [Follows]_vars
  <2> SUFFICES ASSUME TypeOK, GraphInv, Next, Returns, quiet, ~raised' PROVE FollowsDisk
    BY DEF vars
  <2>1. CASE UpToDate
    <3>1. /\ At("scan") /\ job.todo = {} /\ job.seen = print
          /\ UNCHANGED <<disk, modules, index, print, raised>>
      BY <2>1 DEF UpToDate, Finished, At, graph, world
    <3>2. \A f \in Files : print[f] = disk[f]
      BY <3>1 DEF GraphInv, ScanInv
    <3>3. \A f \in Files : modules[f] = disk[f]
      BY <3>1, <3>2 DEF GraphInv, ScanInv, Parsed, Whole, Present
    <3>4. modules = disk /\ index = modules
      BY <3>1, <3>3, SameVersions DEF GraphInv, ScanInv, Whole, TypeOK
    <3> QED BY <3>1, <3>4 DEF FollowsDisk
  <2>2. CASE Refreshed
    <3>1. /\ At("parse") /\ job.todo = {} /\ index' = modules
          /\ UNCHANGED <<disk, modules, raised>>
      BY <2>2 DEF Refreshed, Finished, At, world
    <3>2. job.seen = disk /\ Present(modules) = Present(job.seen)
      BY <3>1 DEF GraphInv, ParseInv
    <3>3. \A f \in Files : modules[f] = disk[f]
      BY <3>1, <3>2 DEF GraphInv, ParseInv, Present
    <3> QED BY <3>1, <3>3, SameVersions DEF FollowsDisk, TypeOK
  <2>3. CASE Stamped
    BY <2>3 DEF Stamped, Finished, GraphInv, BuildInv, FollowsDisk, world
  <2>4. \A f \in Files : ~Raises(f)
    BY DEF Raises
  <2>5. ASSUME NEW f \in Files, Write(f) \/ Delete(f) \/ Stat(f) \/ Parse(f) \/ Build(f) \/ Stamp(f)
        PROVE  ~Returns
    BY <2>5 DEF Returns, At, Write, Delete, Change, Stat, Parse, Build, Stamp, Keep, Did, TypeOK, Jobs
  <2>6. ASSUME Rebuild \/ Stale \/ Built
        PROVE  ~Returns
    BY <2>6 DEF Returns, At, Rebuild, Stale, Built, TypeOK, Jobs
  <2>7. ASSUME NEW who \in {"query", "watcher"}, Refresh(who)
        PROVE  ~Returns
    BY <2>7 DEF Refresh, Returns, At
  <2> QED
    BY <2>1, <2>2, <2>3, <2>4, <2>5, <2>6, <2>7 DEF Next, Work
<1> QED
  BY <1>1, TypeCorrect, GraphHolds, PTL DEF Spec, RefreshFollowsDisk
=============================================================================
