\* A server that may ignore SIGTERM, chat, block on its log, and stop; the ids of its
\* requests are not the client's.  The use ends, so a state without a successor is no
\* error.
CONSTANTS
  MaxRequests = 2
  MaxChatter = 2
  ServerIds = {9}
  StderrRoom = 1
  MaxStderr = 2
SPECIFICATION FairSpec
INVARIANTS
  AnswersAreOwn
  NoServerLeft
PROPERTIES
  UseEnds
CHECK_DEADLOCK FALSE
