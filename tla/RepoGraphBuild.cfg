\* A file changes while build_index is at work.
CONSTANTS
  f1 = f1
  f2 = f2
  Files <- Two
  MaxEdits = 1
  EditsDuringBuild = TRUE
SPECIFICATION Spec
PROPERTY
  RefreshFollowsDisk
