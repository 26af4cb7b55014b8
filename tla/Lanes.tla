------------------------------- MODULE Lanes -------------------------------
(***************************************************************************)
(* `poor-cli review-run` and `verify-run` (src/src/poor_cli/lanes.py):     *)
(* processes of their own beside the command of Orchestrator, on the same  *)
(* run, at any time after it was created.  Each writes a verdict, and so   *)
(* does the command at its end: REVIEW.json or VERIFY.json first, then the *)
(* row of its artifact (src/src/poor_cli/artifacts.py:_write).  The        *)
(* command's two verdicts are two steps each here.                         *)
(*                                                                         *)
(* The lanes' events are no events of Orchestrator: neither replay nor a   *)
(* lane reads them.  A lane that cannot load its configuration raises      *)
(* before it has written anything, and is left out.                        *)
(***************************************************************************)
EXTENDS Orchestrator

CONSTANTS
  Procs,        \* processes that run a lane, once each
  MaxChecks,    \* bound on the commands of a verification
  Replies       \* what a reviewer may answer

ASSUME LanesAssumption == MaxChecks \in Nat /\ Replies \subseteq {"accept", "reject", "garbage"}

VARIABLES
  lane,         \* each lane's process
  file, shown,  \* the verdict in each file, and the one of the last row
  half,         \* the command has written a verdict's file and not its row
  replies,      \* the stored responses, <<prompt, reply>>
  raced         \* kinds of verdict that two wrote at the same time, or one only half

laneVars == <<lane, file, shown, half, replies, raced>>

Kinds == {"review", "verify"}

\* after    the command was over when the lane read the artifacts
\* behind   the lanes that were over then
\* saw      what the prompt was made of; listed: what the verdict gives as its sources
\* reply    what the reviewer answered; verdict: what is made of it
Idle == [step |-> "idle", kind |-> "none", after |-> FALSE, behind |-> {}, saw |-> {},
         listed |-> {}, reply |-> "none", verdict |-> "none"]
Nothing == [kind |-> "none", verdict |-> "none"]

\* The lanes are all reviews or all verifications: the two kinds share no file, no row
\* and no response.
LanesInit ==
  /\ Init
  /\ \E kd \in Kinds : lane = [l \in Procs |-> [Idle EXCEPT !.kind = kd]]
  /\ half = FALSE /\ raced = {} /\ replies = {}
  /\ file = [kd \in Kinds |-> "none"] /\ shown = [kd \in Kinds |-> "none"]

Is(l, step) == lane[l].step = step
Over == {l \in Procs : Is(l, "over")}
Set(l, r) == lane' = [lane EXCEPT ![l] = r]

-----------------------------------------------------------------------------
(* The command's own verdicts.                                             *)

\* The verdict that the next store call of the command puts.
Given ==
  IF ended # "no" \/ ~InScript \/ Call[1] # "put" THEN Nothing
  ELSE CASE Call[2] = "review.accepted" -> [kind |-> "review", verdict |-> "accepted"]
         [] Call[2] = "review.rejected" -> [kind |-> "review", verdict |-> "rejected"]
         [] Call[2] = "verify.pass"     -> [kind |-> "verify", verdict |-> "passed"]
         [] Call[2] = "verify.fail"     -> [kind |-> "verify", verdict |-> "failed"]
         [] OTHER                       -> Nothing

\* Who is between a verdict's file and its row: lanes, or the command.
Between(kd) == {l \in Procs : Is(l, "row") /\ lane[l].kind = kd}
HalfOf(kd)  == half /\ Given.kind = kd

\* REVIEW.json or VERIFY.json is written.
Writes(kd, verdict) ==
  /\ file' = [file EXCEPT ![kd] = verdict]
  /\ raced' = IF Between(kd) # {} \/ HalfOf(kd) THEN raced \cup {kd} ELSE raced

CommandWritesFile ==
  /\ Given # Nothing /\ ~half /\ half' = TRUE
  /\ Writes(Given.kind, Given.verdict)
  /\ UNCHANGED <<vars, lane, shown, replies>>

CommandPuts ==
  /\ Given # Nothing /\ half /\ half' = FALSE /\ StoreCall
  /\ shown' = [shown EXCEPT ![Given.kind] = Given.verdict]
  /\ UNCHANGED <<lane, file, replies, raced>>

CommandDies ==
  /\ Dies /\ half' = FALSE
  /\ raced' = IF half THEN raced \cup {Given.kind} ELSE raced
  /\ UNCHANGED <<lane, file, shown, replies>>

Command ==
  \/ CommandWritesFile \/ CommandPuts \/ CommandDies
  \/ ((Given = Nothing /\ StoreCall) \/ Decide \/ Asked) /\ UNCHANGED laneVars

-----------------------------------------------------------------------------
(* review_run                                                              *)

\* What a prompt is made of: the plan, and the tasks' patches and results.
PromptKind  == {"artifact.plan.md", "worker.patch", "worker.result"}
PatchesOnly == {a \in artifacts : a[1] = "worker.patch"}
Reviewable  == {a \in artifacts : a[1] \in PromptKind}

ReviewPromptPatches(l) ==
  /\ Is(l, "idle") /\ lane[l].kind = "review" /\ status # "absent"
  /\ Set(l, [lane[l] EXCEPT !.step = "lookup", !.after = ended # "no",
                            !.behind = Over, !.saw = PatchesOnly])
  /\ UNCHANGED <<file, shown, half, replies, raced>>

\* Everything under artifacts/, which is more: the kinds that have a file, and the
\* verdicts there are, the one that a review is about to overwrite too.
FileKind == {"artifact.plan.json", "artifact.plan.md",
             "worker.changed_files", "worker.patch", "worker.result"}
Files == {a \in artifacts : a[1] \in FileKind} \cup {<<kd, 0>> : kd \in {kd \in Kinds : file[kd] # "none"}}

\* The command may be writing them: the prompt is of the moment they are read.
ReviewPrompt(l) ==
  /\ Is(l, "idle") /\ lane[l].kind = "review" /\ status # "absent"
  /\ Set(l, [lane[l] EXCEPT !.step = "lookup", !.after = ended # "no",
                            !.behind = Over, !.saw = Reviewable])
  /\ UNCHANGED <<file, shown, half, replies, raced>>

Stored(l) == {r \in Replies : <<lane[l].saw, r>> \in replies}

\* The user may suppress every finding of a rejection; a reply that is not the JSON it
\* should be is a rejection of its own kind.
VerdictsOf(reply) ==
  CASE reply = "accept"  -> {"accepted"}
    [] reply = "reject"  -> {"accepted", "rejected"}
    [] reply = "garbage" -> {"unusable"}

\* The reply is turned into a verdict, whose sources are all files of that moment: the
\* response is charged before it is judged, so the ledger is one of them.
Judged(l, reply) ==
  \E v \in VerdictsOf(reply) :
    Set(l, [lane[l] EXCEPT !.step = "file", !.listed = Files \cup {<<"ledger", 0>>},
                           !.reply = reply, !.verdict = v])

\* CachedReplayProvider: the last response stored to the same prompt (of two within a
\* second either one),
ReviewAgain(l) ==
  /\ Is(l, "lookup") /\ Stored(l) # {}
  /\ \E r \in Stored(l) : Judged(l, r)
  /\ UNCHANGED <<file, shown, half, replies, raced>>

\* or the provider is asked, and what it says is stored, whatever it says.
ReviewAsks(l) ==
  /\ Is(l, "lookup") /\ Stored(l) = {}
  /\ Set(l, [lane[l] EXCEPT !.step = "ask"])
  /\ UNCHANGED <<file, shown, half, replies, raced>>

ReviewUnstored(l) ==
  /\ Is(l, "ask") /\ \E r \in Replies : Judged(l, r)
  /\ UNCHANGED <<file, shown, half, replies, raced>>

ReviewAnswered(l) ==
  /\ Is(l, "ask")
  /\ \E r \in Replies : Judged(l, r) /\ replies' = replies \cup {<<lane[l].saw, r>>}
  /\ UNCHANGED <<file, shown, half, raced>>

-----------------------------------------------------------------------------
(* verify_run                                                              *)

\* The commands are run in turn, by a process that does nothing else meanwhile: each
\* succeeds, or it fails or is refused by the sandbox.  No commands is no pass.
Checks(l) ==
  /\ Is(l, "idle") /\ lane[l].kind = "verify" /\ status # "absent"
  /\ \E results \in UNION {[1..n -> BOOLEAN] : n \in 0..MaxChecks} :
       Set(l, [lane[l] EXCEPT !.step = "file",
                              !.verdict = IF results # << >> /\ \A i \in DOMAIN results : results[i]
                                          THEN "passed" ELSE "failed"])
  /\ UNCHANGED <<file, shown, half, replies, raced>>

-----------------------------------------------------------------------------
(* The end of both: the file, the row, and an event.                       *)

\* Once the verdict is made, only the answer to a review after the command's end is
\* still compared with later ones.
Kept(l, step) ==
  [Idle EXCEPT !.step = step, !.kind = lane[l].kind, !.after = lane[l].after,
               !.reply = IF lane[l].after THEN lane[l].reply ELSE "none"]

WriteFile(l) ==
  /\ Is(l, "file") /\ Set(l, [Kept(l, "row") EXCEPT !.verdict = lane[l].verdict])
  /\ Writes(lane[l].kind, lane[l].verdict)
  /\ UNCHANGED <<shown, half, replies>>

Ends(l) == Set(l, [Kept(l, "over") EXCEPT !.after = FALSE])

NoRow(l) ==
  /\ Is(l, "row") /\ Ends(l)
  /\ UNCHANGED <<file, shown, half, replies, raced>>

PutRow(l) ==
  /\ Is(l, "row") /\ Ends(l)
  /\ shown' = [shown EXCEPT ![lane[l].kind] = lane[l].verdict]
  /\ UNCHANGED <<file, half, replies, raced>>

\* The provider raises, a command runs into its timeout, or the process is killed:
\* the lane has started and has no end.
Stops(l) ==
  /\ lane[l].step \in {"lookup", "ask", "file", "row"} /\ Ends(l)
  /\ raced' = IF Is(l, "row") THEN raced \cup {lane[l].kind} ELSE raced
  /\ UNCHANGED <<file, shown, half, replies>>

LaneStep(l) ==
  \/ ReviewPrompt(l) \/ ReviewAgain(l) \/ ReviewAsks(l) \/ ReviewAnswered(l)
  \/ Checks(l) \/ WriteFile(l) \/ PutRow(l) \/ Stops(l)

LanesNext == Command \/ \E l \in Procs : LaneStep(l) /\ UNCHANGED vars

LanesSpec == LanesInit /\ [][LanesNext]_<<vars, laneVars>>

-----------------------------------------------------------------------------
\* REVIEW.json and VERIFY.json show the verdict of the last row, unless two wrote one
\* at the same time or a writer died between: what `inspect` lists is what is on disk.
VerdictsAgree ==
  \A kd \in Kinds \ raced : Between(kd) = {} /\ ~HalfOf(kd) => file[kd] = shown[kd]

\* A review looks at the directory twice, before the reviewer answers and after.  What
\* the reviewer was shown is among the sources of the verdict even so; and once the
\* command is over, the sources name no plan, patch or result but those.
ReviewListsWhatItSaw ==
  \A l \in Procs : Is(l, "file") /\ lane[l].kind = "review" =>
    /\ lane[l].saw \subseteq lane[l].listed
    /\ lane[l].after => {a \in lane[l].listed : a[1] \in PromptKind} = lane[l].saw

\* A review that is repeated after the command and the first review are over judges the
\* answer that the first one got, however often the provider would answer otherwise,
\* unless a third one asked beside the first and was answered differently.
ReviewRepeats ==
  \A l, m \in Procs :
    /\ Is(l, "file") /\ lane[l].kind = "review"
    /\ m \in lane[l].behind /\ lane[m].reply # "none"
    /\ \A n \in Procs \ {l, m} : Is(n, "idle")
    => lane[l].reply = lane[m].reply

\* "run the configured reviewer route over a completed run's artifacts": a review
\* judges a run whose end the events record.
ReviewsCompletedRuns == 
  \A l \in Procs :
    lane[l].kind = "review" /\ lane[l].step \notin {"idle", "over"} => Concluded
=============================================================================
