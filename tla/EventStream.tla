----------------------------- MODULE EventStream -----------------------------
(***************************************************************************)
(* What a run's event stream promises, whatever files and tables hold it.  *)
(* A run has a log, the order in which its events became durable, and a    *)
(* mirror, the events that reached the replay copy.  An event becomes      *)
(* durable once, in one run; it may then reach the mirror once, and only   *)
(* after it is durable.  Nothing is ever withdrawn from either.            *)
(* Whether a durable event reaches the mirror at all is not promised: the  *)
(* process that appended it may die first.                                 *)
(***************************************************************************)
EXTENDS Sequences

CONSTANTS Runs, EventIds

VARIABLES log, mirrored

Lines(s) == {s[i] : i \in DOMAIN s}

Init ==
  /\ log = [r \in Runs |-> <<>>]
  /\ mirrored = [r \in Runs |-> {}]

Commit(r, e) ==
  /\ \A q \in Runs : e \notin Lines(log[q])
  /\ log' = [log EXCEPT ![r] = Append(@, e)]
  /\ UNCHANGED mirrored

Mirror(r, e) ==
  /\ e \in Lines(log[r]) \ mirrored[r]
  /\ mirrored' = [mirrored EXCEPT ![r] = @ \cup {e}]
  /\ UNCHANGED log

Next == \E r \in Runs, e \in EventIds : Commit(r, e) \/ Mirror(r, e)

Spec == Init /\ [][Next]_<<log, mirrored>>
=============================================================================
