\* Two lanes beside a run of one task.  Everything ends, so a state without a
\* successor is no error.
CONSTANTS
  l1 = l1
  l2 = l2
  Procs <- TwoLanes
  MaxChecks = 1
  Replies <- AcceptsOrGarbage
  MaxTasks = 1
  Modes <- Attended
SYMMETRY Alike
SPECIFICATION LanesSpec
INVARIANTS
  VerdictsAgree
  ReviewListsWhatItSaw
  ReviewRepeats
CHECK_DEADLOCK FALSE
