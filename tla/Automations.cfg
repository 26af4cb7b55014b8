\* Two automations, a server and a user, a clock that changes half-way, one
\* operation that fails.  The clock stops at its bound, so a state without a
\* successor is no error.
CONSTANTS
  nightly = nightly
  weekly = weekly
  server = server
  cli = cli
  Autos <- TwoAutos
  Servers <- OneServer
  Users <- OneUser
  Schedules <- EachKind
  Zones <- Clocks
  DayTicks = 3
  WeekDays = 2
  Change = 3
  Shift = 2
  MaxTime = 4
  MaxCommands = 1
  MaxFailures = 1
SPECIFICATION FairSpec
INVARIANTS
  TypeOK
  NextIsFirst
  EnabledIsScheduled
  LaunchedOnce
PROPERTIES
  DueIsLaunched
CHECK_DEADLOCK FALSE
