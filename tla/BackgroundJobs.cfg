\* A task or an agent, a command line and a server that give two commands, one death.  The
\* commands may be over and the worker gone, so a state without a successor is no
\* error.
CONSTANTS
  cli = cli
  server = server
  Users <- TwoUsers
  Servers <- OneServer
  Kinds <- BothKinds
  MaxCommands = 2
  MaxDeaths = 1
SPECIFICATION FairSpec
INVARIANTS
  ApprovedFirst
  RunningHasWorker
  OneWorker
  CancelStopsWork
PROPERTIES
  RunningEnds
CHECK_DEADLOCK FALSE
