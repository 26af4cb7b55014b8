SPECIFICATION Spec
CONSTANTS
  t1 = t1
  t2 = t2
  read = read
  reread = reread
  unknown = unknown
  blank = blank
  Tasks = {t1, t2}
  Tools = {read, reread, unknown, blank}
  NameOf <- Names
  Known = {read, reread}
  Ids = {"", "1", "2"}
  Replies <- Shapes
  MaxCalls = 2
  MaxTurns = 3
  MaxToolCalls = 3
  MaxBytes = 5
  Window = 3
  Results = {1, 6}
  MaxAttempts = 3
  MaxCrashes = 1
SYMMETRY TaskSymmetry
CHECK_DEADLOCK FALSE
INVARIANTS ReplayReproduces ToolRunsOnce TranscriptsSound
