----------------------------- MODULE McpClient -----------------------------
(***************************************************************************)
(* One use of an MCP server (src/src/poor_cli/mcp_client.py,               *)
(* list_mcp_tools and call_mcp_tool): a server process is started, it is   *)
(* sent an initialize request and then others, one at a time, over pipes,  *)
(* and is ended.                                                           *)
(*                                                                         *)
(* The server is no part of the program: it answers, reports errors, sends *)
(* messages and requests of its own, writes something that is not JSON or  *)
(* to its standard error, stops by itself, or does nothing.  The           *)
(* client has no timeout but the one for a server that was told to stop.   *)
(***************************************************************************)
EXTENDS Naturals, Sequences

CONSTANTS
  MaxRequests,    \* requests after initialize; the program makes one
  MaxChatter,     \* bound on the messages of the server's own
  ServerIds,      \* ids of the requests that the server makes
  StderrRoom,     \* lines that the pipe of its standard error holds; nobody reads it
  MaxStderr       \* bound on the lines it writes there

ASSUME McpAssumption ==
  /\ {MaxRequests, MaxChatter, StderrRoom, MaxStderr} \subseteq Nat /\ MaxRequests > 0
  /\ ServerIds \subseteq Nat

VARIABLES
  step,           \* where the client is
  rid, next_id,   \* the id of the request under way; the next one
  got,            \* what the client's requests returned, <<id, what the server meant>>
  how,            \* how the use ends
  connected,      \* connect() returned
  stdin, stdout,  \* the pipes
  open,           \* requests that the server has read and not answered
  server,         \* the server's process
  stubborn,       \* it ignores SIGTERM
  stderr,         \* lines in the pipe of its standard error
  chatter

client == <<step, rid, next_id, got, how, connected>>
srv    == <<stdin, stdout, open, server, stubborn, stderr, chatter>>
vars   == <<client, srv>>

\* A line of the server: the id it carries ("none" is 0), whether it is an answer, an
\* error, a request or notification of the server's, or not JSON.
Line(kind, id) == [kind |-> kind, id |-> id]
Kinds == {"result", "error", "own", "garbage"}

Init ==
  /\ step = "new" /\ rid = 0 /\ next_id = 2 /\ got = <<>> /\ how = "no" /\ connected = FALSE
  /\ stdin = <<>> /\ stdout = <<>> /\ open = {} /\ server = "none"
  /\ stubborn \in BOOLEAN /\ stderr = 0 /\ chatter = 0

-----------------------------------------------------------------------------
(* The client.                                                             *)

\* connect: the process is created, and initialize is its first request.
Connect ==
  /\ step = "new"
  /\ server' = "alive" /\ stdin' = <<1>> /\ step' = "read" /\ rid' = 1
  /\ UNCHANGED <<next_id, got, how, connected, stdout, open, stubborn, stderr, chatter>>

\* A command that cannot be executed raises.
ConnectFails ==
  /\ step = "new" /\ step' = "over" /\ how' = "raised"
  /\ UNCHANGED <<rid, next_id, got, connected, srv>>

\* _request: a write to a server that has gone raises, or goes unnoticed until its
\* output ends.
Request ==
  /\ step = "send" /\ next_id < 2 + MaxRequests
  /\ stdin' = Append(stdin, next_id) /\ rid' = next_id /\ next_id' = next_id + 1
  /\ step' = "read"
  /\ UNCHANGED <<got, how, connected, stdout, open, server, stubborn, stderr, chatter>>

\* What the requests raise leaves through the finally of their caller, but there
\* is none around connect.
Raise == how' = "raised" /\ step' = (IF connected THEN "disconnect" ELSE "over")

RequestRaises ==
  /\ step = "send" /\ server = "gone" /\ Raise
  /\ UNCHANGED <<rid, next_id, got, connected, srv>>

AcceptsAny(line) == line.kind # "garbage"

\* Only the id is looked at, whether the line is an answer or not.
Accepts(line) == line.kind # "garbage" /\ line.id = rid

Read ==
  /\ step = "read" /\ stdout # <<>>
  /\ stdout' = Tail(stdout)
  /\ LET line == Head(stdout) IN
     \/ line.kind = "garbage" /\ Raise /\ UNCHANGED <<got, connected>>
     \/ line.kind # "garbage" /\ ~Accepts(line) /\ UNCHANGED <<got, how, step, connected>>
     \/ Accepts(line) /\ line.kind = "error" /\ Raise /\ UNCHANGED <<got, connected>>
     \/ Accepts(line) /\ line.kind # "error" /\ step' = "send" /\ connected' = TRUE
          /\ got' = Append(got, <<rid, line>>) /\ UNCHANGED how
  /\ UNCHANGED <<rid, next_id, stdin, open, server, stubborn, stderr, chatter>>

EofIgnored == step = "read" /\ stdout = <<>> /\ server = "gone" /\ UNCHANGED vars

\* The end of the server's output.
Eof ==
  /\ step = "read" /\ stdout = <<>> /\ server = "gone" /\ Raise
  /\ UNCHANGED <<rid, next_id, got, connected, srv>>

Done ==
  /\ step = "send" /\ next_id = 2 + MaxRequests /\ step' = "disconnect" /\ how' = "returned"
  /\ UNCHANGED <<rid, next_id, got, connected, srv>>

\* disconnect: SIGTERM,
Disconnect ==
  /\ step = "disconnect"
  /\ step' = IF server = "gone" THEN "over" ELSE "terminating"
  /\ server' = IF stubborn THEN server ELSE "gone"
  /\ UNCHANGED <<rid, next_id, got, how, connected, stdin, stdout, open, stubborn, stderr, chatter>>

TimesOutAndLeaves ==
  /\ step = "terminating" /\ server # "gone" /\ step' = "over"
  /\ UNCHANGED <<rid, next_id, got, how, connected, srv>>

\* SIGKILL to one that is still there after three seconds,
TimesOut ==
  /\ step = "terminating" /\ server # "gone"
  /\ server' = "gone"
  /\ UNCHANGED <<client, stdin, stdout, open, stubborn, stderr, chatter>>

\* and the end of wait().
Waited ==
  /\ step = "terminating" /\ server = "gone" /\ step' = "over"
  /\ UNCHANGED <<rid, next_id, got, how, connected, srv>>

Client ==
  \/ Connect \/ ConnectFails \/ Request \/ RequestRaises \/ Read \/ Eof
  \/ Done \/ Disconnect \/ TimesOut \/ Waited

-----------------------------------------------------------------------------
(* The server.                                                             *)

Takes ==
  /\ server = "alive" /\ stdin # <<>>
  /\ open' = open \cup {Head(stdin)} /\ stdin' = Tail(stdin)
  /\ UNCHANGED <<client, stdout, server, stubborn, stderr, chatter>>

Answers ==
  /\ server = "alive"
  /\ \E id \in open, kind \in {"result", "error"} :
       stdout' = Append(stdout, Line(kind, id)) /\ open' = open \ {id}
  /\ UNCHANGED <<client, stdin, server, stubborn, stderr, chatter>>

\* A notification, a request of its own, or a line that is not JSON.
Chats ==
  /\ server = "alive" /\ chatter < MaxChatter /\ chatter' = chatter + 1
  /\ \E line \in {Line("own", id) : id \in {0} \cup ServerIds} \cup {Line("garbage", 0)} :
       stdout' = Append(stdout, line)
  /\ UNCHANGED <<client, stdin, open, server, stubborn, stderr>>

\* It stops in a write for which there is no room, with whatever it was doing.
Logs ==
  /\ server = "alive" /\ stderr < MaxStderr
  /\ IF stderr < StderrRoom THEN stderr' = stderr + 1 /\ UNCHANGED server
     ELSE server' = "blocked" /\ UNCHANGED stderr
  /\ UNCHANGED <<client, stdin, stdout, open, stubborn, chatter>>

Stops ==
  /\ server \in {"alive", "blocked"} /\ server' = "gone"
  /\ UNCHANGED <<client, stdin, stdout, open, stubborn, stderr, chatter>>

Server == Takes \/ Answers \/ Chats \/ Logs \/ Stops

Next == Client \/ Server

Spec == Init /\ [][Next]_vars

\* The client goes on, and the server answers what it has read.
FairSpec == Spec /\ WF_vars(Client) /\ WF_vars(Takes) /\ WF_vars(Answers)

-----------------------------------------------------------------------------
Lines == [kind : Kinds, id : 0..(1 + MaxRequests) \cup ServerIds]

\* Every variable keeps to its values.
TypeOK ==
  /\ step \in {"new", "read", "send", "disconnect", "terminating", "over"}
  /\ rid \in 0..(1 + MaxRequests) /\ next_id \in 2..(2 + MaxRequests)
  /\ got \in Seq((1..(1 + MaxRequests)) \X Lines) /\ how \in {"no", "returned", "raised"}
  /\ connected \in BOOLEAN /\ stubborn \in BOOLEAN
  /\ stdin \in Seq(1..(1 + MaxRequests)) /\ stdout \in Seq(Lines) /\ open \subseteq 1..(1 + MaxRequests)
  /\ server \in {"none", "alive", "blocked", "gone"}
  /\ stderr \in 0..StderrRoom /\ chatter \in 0..MaxChatter

\* What a request returns is what the server answered to that very request: no
\* notification, no request of the server's and no other answer is taken for it.
AnswersAreOwn == \A i \in DOMAIN got : got[i][2] = Line("result", got[i][1])

\* Once it was connected to, no server outlives its use, one that ignores SIGTERM
\* no more than one that blocks or is still in the middle of an answer.
NoServerLeft == step = "over" /\ connected => server = "gone"

\* The use of a server that answers what it reads comes to an end, whatever else it
\* does and wherever it stops, unless it blocks: the unread pipe of its standard error
\* is the only thing that the client and such a server can wait for for ever.
UseEnds == <>(step = "over" \/ server = "blocked")
=============================================================================
