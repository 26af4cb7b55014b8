-------------------------- MODULE MCProviderBudget --------------------------
(* ProviderBudget on small instances.                                      *)
EXTENDS ProviderBudget, TLC

CONSTANTS p1, p2, h1, h2, h3

Two   == {p1, p2}
Three == {h1, h2, h3}

\* A process alone does more than two together.
OpsBound  == <<5, 3>>
TimeBound == <<1, 0>>

\* Requests are interchangeable, and so are processes.
Symmetry == Permutations(Requests) \cup Permutations(Procs)
=============================================================================
