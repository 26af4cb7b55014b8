----------------------------- MODULE MCRunStore -----------------------------
(* Small instances of RunStore. *)
EXTENDS RunStore, TLC

CONSTANTS p1, p2, r1, r2

\* Two invocations on one run, as `run` and `review-run`, or two reviews.
SharedUsers == [r \in Runs |-> Procs]
SharedOwner == [r \in Runs |-> p1]

\* One invocation on each run.
OwnUsers == (r1 :> {p1}) @@ (r2 :> {p2})
OwnOwner == (r1 :> p1) @@ (r2 :> p2)
=============================================================================

