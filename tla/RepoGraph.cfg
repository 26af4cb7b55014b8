\* Two files, four changes at any moment of a refresh, none while the index is built.
CONSTANTS
  f1 = f1
  f2 = f2
  Files <- Two
  MaxEdits = 4
  EditsDuringBuild = FALSE
SPECIFICATION FairSpec
INVARIANTS
  GraphSound
PROPERTIES
  RefreshFollowsDisk
  WatcherCatchesUp
