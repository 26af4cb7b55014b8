\* One process or two, one request at a time, replies of one to three tokens, and one
\* death.  The bound on operations ends every behaviour.
CONSTANTS
  p1 = p1
  p2 = p2
  h1 = h1
  h2 = h2
  h3 = h3
  Procs <- Two
  Live <- Two
  Requests <- Three
  MaxBatch = 1
  MaxCalls = 2
  MaxTokens = 3
  MaxWall = 1
  Input = 1
  MaxUsage = 3
  MaxOps <- OpsBound
  MaxTime <- TimeBound
  MaxCrashes = 1
SPECIFICATION Spec
SYMMETRY Symmetry
INVARIANTS
  StaysWithinBudget
  PaidOnce
  LedgerFollowsEvents
  WarningsAreRight
CHECK_DEADLOCK FALSE
