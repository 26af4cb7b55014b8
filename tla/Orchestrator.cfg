\* Every way to invoke the command, plans of up to three tasks, replay beside it.
\* The process stops when the command ends, so a state without a successor is no
\* error.
CONSTANTS
  MaxTasks = 3
  Modes <- PlanOrRun
SPECIFICATION FairSpec
INVARIANTS
  ConsentBeforeAgents
  EvidenceBeforeOutcome
  ReturnedRunsAreSettled
  ReplayFaithful
PROPERTIES
  ImplementsLifecycle
  TerminalEventIsLast
  RunSettles
CHECK_DEADLOCK FALSE
