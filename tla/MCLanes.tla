------------------------------ MODULE MCLanes ------------------------------
(* Lanes on small instances.                                               *)
EXTENDS Lanes, TLC
CONSTANTS l1, l2
TwoLanes == {l1, l2}
Attended == {"yes"}
AcceptsOrGarbage == {"accept", "garbage"}
Alike    == Permutations(TwoLanes)
=============================================================================
