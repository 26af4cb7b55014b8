--------------------------- MODULE McpClientProofs ---------------------------
(***************************************************************************)
(* For any number of requests, of messages of the server's own and of      *)
(* lines on its standard error: the types of McpClient are right, no       *)
(* server that was connected to outlives its use, and, if the ids of the   *)
(* server's requests are not the client's, what a request returns is its   *)
(* own answer.                                                             *)
(***************************************************************************)
EXTENDS McpClient, SequenceTheorems, TLAPS

Ids == 1..(1 + MaxRequests)

-----------------------------------------------------------------------------
(* Types.                                                                  *)

\* A client that reads has asked for something.
TypeInv == TypeOK /\ (step = "read" => rid # 0)

\* A line of a server's.
LEMMA LinesAre ==
  ASSUME NEW kind \in Kinds, NEW id \in 0..(1 + MaxRequests) \cup ServerIds
  PROVE  Line(kind, id) \in Lines
  BY DEF Line, Lines

\* Reading a line keeps the types: it is taken for the answer to the request under way.
LEMMA ReadTypes ==
  ASSUME TypeInv, Read
  PROVE  TypeInv'
<1> USE McpAssumption
<1>1. stdout' \in Seq(Lines) /\ Head(stdout) \in Lines
  BY DEF Read, TypeInv, TypeOK
<1>2. /\ how' \in {"no", "returned", "raised"} /\ connected' \in BOOLEAN
      /\ step' \in {"new", "read", "send", "disconnect", "terminating", "over"}
  BY DEF Read, Raise, TypeInv, TypeOK
<1>3. got' \in Seq((1..(1 + MaxRequests)) \X Lines)
  <2>1. CASE got' = Append(got, <<rid, Head(stdout)>>)
    <3>1. rid \in 1..(1 + MaxRequests)
      BY DEF Read, TypeInv, TypeOK
    <3>2. <<rid, Head(stdout)>> \in (1..(1 + MaxRequests)) \X Lines
      BY <1>1, <3>1
    <3> QED BY <2>1, <3>2 DEF TypeInv, TypeOK
  <2>2. CASE got' = got
    BY <2>2 DEF TypeInv, TypeOK
  <2> QED BY <2>1, <2>2 DEF Read
<1>4. rid' # 0
  BY DEF Read, TypeInv
<1> QED
  BY <1>1, <1>2, <1>3, <1>4 DEF Read, TypeInv, TypeOK

\* So do the client's other steps,
LEMMA ClientTypes ==
  ASSUME TypeInv, Client
  PROVE  TypeInv'
<1> USE McpAssumption
<1>1. CASE Connect
  <2>1. <<1>> \in Seq(1..(1 + MaxRequests)) OBVIOUS
  <2> QED BY <1>1, <2>1 DEF Connect, TypeInv, TypeOK
<1>2. CASE ConnectFails
  BY <1>2 DEF ConnectFails, TypeInv, TypeOK, srv
<1>3. CASE Request
  <2>1. next_id \in 1..(1 + MaxRequests) /\ next_id + 1 \in 2..(2 + MaxRequests)
    BY <1>3, SMTT(20) DEF Request, TypeInv, TypeOK
  <2>2. stdin' \in Seq(1..(1 + MaxRequests))
    BY <1>3, <2>1 DEF Request, TypeInv, TypeOK
  <2> QED
    BY <1>3, <2>1, <2>2 DEF Request, TypeInv, TypeOK
<1>4. CASE RequestRaises
  BY <1>4 DEF RequestRaises, Raise, TypeInv, TypeOK, srv
<1>5. CASE Read
  BY <1>5, ReadTypes
<1>6. CASE Eof
  BY <1>6 DEF Eof, Raise, TypeInv, TypeOK, srv
<1>7. CASE Done
  BY <1>7 DEF Done, TypeInv, TypeOK, srv
<1>8. CASE Disconnect
  BY <1>8 DEF Disconnect, TypeInv, TypeOK
<1>9. CASE TimesOut
  BY <1>9 DEF TimesOut, TypeInv, TypeOK, client
<1>10. CASE Waited
  BY <1>10 DEF Waited, TypeInv, TypeOK, srv
<1> QED
  BY <1>1, <1>2, <1>3, <1>4, <1>5, <1>6, <1>7, <1>8, <1>9, <1>10 DEF Client

\* and those of the server.
LEMMA ServerTypes ==
  ASSUME TypeInv, Server
  PROVE  TypeInv'
<1> USE McpAssumption
<1>1. CASE Takes
  <2>1. stdin \in Seq(Ids) /\ stdin # <<>> /\ stdin' = Tail(stdin)
    BY <1>1 DEF Takes, TypeInv, TypeOK, Ids
  <2>2. Head(stdin) \in Ids /\ stdin' \in Seq(Ids)
    BY <2>1
  <2> QED BY <1>1, <2>2 DEF Takes, TypeInv, TypeOK, client, Ids
<1>2. CASE Answers
  <2>1. PICK id \in open, kind \in {"result", "error"} :
          stdout' = Append(stdout, Line(kind, id)) /\ open' = open \ {id}
    BY <1>2 DEF Answers
  <2>2. Line(kind, id) \in Lines
    BY LinesAre DEF Kinds, TypeInv, TypeOK
  <2>3. stdout' \in Seq(Lines)
    BY <2>1, <2>2 DEF TypeInv, TypeOK
  <2> QED BY <1>2, <2>1, <2>3 DEF Answers, TypeInv, TypeOK, client
<1>3. CASE Chats
  <2>1. PICK line \in {Line("own", id) : id \in {0} \cup ServerIds} \cup {Line("garbage", 0)} :
          stdout' = Append(stdout, line)
    BY <1>3 DEF Chats
  <2>2. line \in Lines
    BY LinesAre DEF Kinds
  <2>3. stdout' \in Seq(Lines)
    BY <2>1, <2>2 DEF TypeInv, TypeOK
  <2>4. chatter' \in 0..MaxChatter
    BY <1>3, SMTT(20) DEF Chats, TypeInv, TypeOK
  <2> QED BY <1>3, <2>3, <2>4 DEF Chats, TypeInv, TypeOK, client
<1>4. CASE Logs
  <2>1. stderr' \in 0..StderrRoom /\ server' \in {"none", "alive", "blocked", "gone"}
    BY <1>4, SMTT(20) DEF Logs, TypeInv, TypeOK
  <2> QED BY <1>4, <2>1 DEF Logs, TypeInv, TypeOK, client
<1>5. CASE Stops
  BY <1>5 DEF Stops, TypeInv, TypeOK, client
<1> QED
  BY <1>1, <1>2, <1>3, <1>4, <1>5 DEF Server

\* Every variable keeps to its values, whatever the server does.
THEOREM TypeCorrect == Spec => []TypeInv
<1>1. Init => TypeInv
  <2>1. /\ MaxRequests \in Nat /\ MaxChatter \in Nat /\ StderrRoom \in Nat
        /\ 0 \in 0..MaxChatter /\ 0 \in 0..StderrRoom
        /\ 0 \in 0..(1 + MaxRequests) /\ 2 \in 2..(2 + MaxRequests)
    BY McpAssumption
  <2>2. <<>> \in Seq((1..(1 + MaxRequests)) \X Lines) /\ <<>> \in Seq(Lines)
    OBVIOUS
  <2>3. <<>> \in Seq(1..(1 + MaxRequests)) /\ {} \subseteq 1..(1 + MaxRequests)
    OBVIOUS
  <2> QED BY <2>1, <2>2, <2>3 DEF Init, TypeInv, TypeOK
<1>2. TypeInv /\ [Next]_vars => TypeInv'
  <2> SUFFICES ASSUME TypeInv, [Next]_vars PROVE TypeInv'
    OBVIOUS
  <2>1. CASE Client BY <2>1, ClientTypes
  <2>2. CASE Server BY <2>2, ServerTypes
  <2>3. CASE UNCHANGED vars BY <2>3 DEF vars, client, srv, TypeInv, TypeOK
  <2> QED BY <2>1, <2>2, <2>3 DEF Next
<1> QED
  BY <1>1, <1>2, PTL DEF Spec

-----------------------------------------------------------------------------
(* Answers.                                                                *)

\* What the server writes of its own accord carries no id of the client's.
OwnLines ==
  \A i \in DOMAIN stdout : stdout[i].kind = "own" => stdout[i].id \in {0} \cup ServerIds

\* What goes into the pipe was answered, or is the server's own.
LEMMA LinesStayOwn ==
  ASSUME TypeInv, OwnLines, [Next]_vars
  PROVE  OwnLines'
<1>1. CASE Read
  <2>1. stdout' = Tail(stdout) /\ stdout # <<>> /\ stdout \in Seq(Lines)
    BY <1>1 DEF Read, TypeInv, TypeOK
  <2>2. \A i \in DOMAIN stdout' : i + 1 \in DOMAIN stdout /\ stdout'[i] = stdout[i + 1]
    BY <2>1
  <2> QED BY <2>2 DEF OwnLines
<1>2. ASSUME NEW line \in Lines, stdout' = Append(stdout, line),
             line.kind = "own" => line.id \in {0} \cup ServerIds
      PROVE  OwnLines'
  <2>1. \A i \in DOMAIN stdout' :
          (i \in DOMAIN stdout /\ stdout'[i] = stdout[i]) \/ stdout'[i] = line
    BY <1>2 DEF TypeInv, TypeOK
  <2> QED BY <1>2, <2>1 DEF OwnLines
<1>3. CASE Answers
  <2>1. PICK id \in open, kind \in {"result", "error"} : stdout' = Append(stdout, Line(kind, id))
    BY <1>3 DEF Answers
  <2>2. Line(kind, id) \in Lines
    BY McpAssumption, LinesAre DEF Kinds, TypeInv, TypeOK
  <2> QED BY <1>2, <2>1, <2>2 DEF Line
<1>4. CASE Chats
  <2>1. PICK line \in {Line("own", id) : id \in {0} \cup ServerIds} \cup {Line("garbage", 0)} :
          stdout' = Append(stdout, line)
    BY <1>4 DEF Chats
  <2>2. line \in Lines
    BY McpAssumption, LinesAre DEF Kinds
  <2>3. line.kind = "own" => line.id \in {0} \cup ServerIds
    BY DEF Line
  <2> QED BY <1>2, <2>1, <2>2, <2>3
<1>5. CASE UNCHANGED stdout
  BY <1>5 DEF OwnLines
<1> QED
  BY <1>1, <1>3, <1>4, <1>5
  DEF Next, Client, Server, vars, srv, Connect, ConnectFails, Request, RequestRaises, Eof, Done,
      Disconnect, TimesOut, Waited, Takes, Logs, Stops

\* A server that numbers its requests otherwise than the client does is never taken
\* at its word for an answer that it did not give: what was returned was the answer.
\* (With an id in common it is, since a line's id is all that the client looks at.)
THEOREM AnswersComeBack ==
  ASSUME ServerIds \cap Ids = {}
  PROVE  Spec => []AnswersAreOwn
<1> DEFINE IInv == OwnLines /\ AnswersAreOwn
<1>1. Init => IInv
  BY DEF Init, OwnLines, AnswersAreOwn
<1>2. TypeInv /\ IInv /\ [Next]_vars => IInv'
  <2> SUFFICES ASSUME TypeInv, IInv, [Next]_vars PROVE AnswersAreOwn'
    BY LinesStayOwn
  <2>1. CASE Read /\ got' # got
    <3> DEFINE line == Head(stdout)
    <3>1. got' = Append(got, <<rid, line>>) /\ line.kind \notin {"error", "garbage"} /\ line.id = rid
      BY <2>1 DEF Read, Accepts
    <3>2. line \in Lines /\ rid \in Ids /\ 1 \in DOMAIN stdout /\ line = stdout[1]
      BY <2>1, McpAssumption, SMTT(30) DEF Read, TypeInv, TypeOK, Ids
    <3>3. line.kind # "own"
      BY <3>1, <3>2, McpAssumption DEF OwnLines, Ids
    <3>4. line.kind = "result"
      BY <3>1, <3>2, <3>3 DEF Lines, Kinds
    <3>5. line = Line("result", rid)
      BY <3>1, <3>2, <3>4 DEF Lines, Line
    <3>6. \A i \in DOMAIN got' :
            (i \in DOMAIN got /\ got'[i] = got[i]) \/ got'[i] = <<rid, line>>
      BY <3>1 DEF TypeInv, TypeOK
    <3> QED BY <3>5, <3>6 DEF AnswersAreOwn
  <2>2. CASE UNCHANGED got
    BY <2>2 DEF AnswersAreOwn
  <2> QED
    BY <2>1, <2>2
    DEF Next, Client, Server, vars, client, Connect, ConnectFails, Request, RequestRaises, Eof, Done,
        Disconnect, TimesOut, Waited, Takes, Answers, Chats, Logs, Stops
<1>3. IInv => AnswersAreOwn
  OBVIOUS
<1> QED
  BY <1>1, <1>2, <1>3, TypeCorrect, PTL DEF Spec

-----------------------------------------------------------------------------
(* The end.                                                                *)

\* Only what is connected to is disconnected from, and only then is the server dead:
\* whatever it does with its time and its signals, it is gone when its client is.
THEOREM NoServerStays == Spec => []NoServerLeft
<1> DEFINE IInv == /\ step = "new" => ~connected
                   /\ NoServerLeft
<1>1. Init => IInv
  BY DEF Init, NoServerLeft
<1>2. TypeInv /\ IInv /\ [Next]_vars => IInv'
  <2> SUFFICES ASSUME TypeInv, IInv, [Next]_vars PROVE IInv'
    OBVIOUS
  <2>1. CASE Client
    BY <2>1
    DEF Client, NoServerLeft, srv, client, Connect, ConnectFails, Request, RequestRaises, Read, Raise,
        Eof, Done, Disconnect, TimesOut, Waited
  <2>2. CASE Server
    BY <2>2 DEF Server, NoServerLeft, client, Takes, Answers, Chats, Logs, Stops
  <2>3. CASE UNCHANGED vars
    BY <2>3 DEF vars, client, srv, NoServerLeft
  <2> QED BY <2>1, <2>2, <2>3 DEF Next
<1>3. IInv => NoServerLeft
  OBVIOUS
<1> QED
  BY <1>1, <1>2, <1>3, TypeCorrect, PTL DEF Spec
=============================================================================
