CONSTANTS
  p1 = p1  p2 = p2  r1 = r1  r2 = r2
  Procs = {p1, p2}
  Runs = {r1, r2}
  EventIds = {e1, e2}
  Digests = {d1}
  RowValues = {"created", "completed"}
  Cas = Cas
  Users <- OwnUsers
  Owner <- OwnOwner
  MaxCrashes = 0
SPECIFICATION FairSpec
INVARIANTS SingleWriterVerifies
PROPERTIES EventsReachMirror RowsEventuallyRead
