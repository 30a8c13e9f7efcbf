----------------------------- MODULE ChatServer -----------------------------
(***************************************************************************)
(* The chat server of ChatServer_HA/main.cpp: one thread that polls the    *)
(* listening socket and every connected client with select(), accepts at   *)
(* most one client per pass, and then serves the readable clients in the   *)
(* order in which they connected.  An account request makes the thread     *)
(* wait, inside the handler, for the authentication server's answer.       *)
(*                                                                         *)
(* A TCP stream is a sequence of cells.  A packet of width w is w cells    *)
(* that carry the packet and their index; recv() takes at most BufLen of   *)
(* them, whatever packets they belong to, because the code never uses the  *)
(* length it finds in a header.  Every packet's own fields are assumed to  *)
(* fit in one recv() of 128 bytes; its zero padding may not.               *)
(*                                                                         *)
(* The clients, the TCP connections and the authentication server are the  *)
(* environment.  sent and log are history variables.                       *)
(***************************************************************************)
EXTENDS Integers, Sequences, FiniteSets, Functions

CONSTANTS
  Socket,      \* the connections clients make; the server never closes a socket,
               \* so it never sees the same one twice
  Room,        \* room names
  User,        \* user names
  userName,    \* the name typed at the client's prompt, for every connection
  Garbled,     \* a name that swallowed the start of the packet behind it
  NoPacket,    \* the stack buffer holds nothing that parses as a request
  Kinds,       \* the requests the clients make in this instance
  BufLen,      \* cells that one recv() of 128 bytes can return
  Width,       \* cells of a request on the wire, padding included
  AnswerWidth, \* cells of an answer of the authentication server
  FdSetSize,   \* FD_SETSIZE of Winsock: the sockets an fd_set can hold
  Faults,      \* what may go wrong around the server (see the environment)
  MaxPackets,  \* bound: requests per client
  MaxLog       \* bound: a stale buffer is handled again only below this length

MsgType == {"JOIN", "LEAVE", "SEND", "CREATE", "AUTHENTICATE"}
RoomMsg == {"JOIN", "LEAVE", "SEND"}
AccountMsg == {"CREATE", "AUTHENTICATE"}
FaultKind == {"exit", "rst", "kill", "authloss", "unparsed", "repeat"}

ASSUME ConstantsAssumption ==
  /\ userName \in [Socket -> User]
  /\ Garbled \notin User
  /\ Kinds \subseteq MsgType
  /\ BufLen \in Nat \ {0}
  /\ Width \in [MsgType -> Nat \ {0}]
  /\ AnswerWidth \in Nat \ {0}
  /\ FdSetSize \in Nat \ {0}
  /\ Faults \subseteq FaultKind
  /\ MaxPackets \in Nat
  /\ MaxLog \in Nat

VARIABLES
  \* the clients' ends and the wires
  peer,      \* idle, dialed (connect done), open (name sent), closed, reset
  nsent,     \* number of requests a client has sent
  backlog,   \* connections not accepted yet
  stream,    \* cells from a client that the server has not received
  sent,      \* every line that send() took for a client
  \* the server
  clients,   \* SERVER.clients, in order of acceptance
  connected, \* the clients whose flag connected is set
  name,      \* ClientInfo.name
  rooms,     \* ClientInfo.rooms
  pc,        \* select, accept, serve, auth (waiting for an answer), down
  ready,     \* clients of socketsReadyForReading that this pass has not served
  scratch,   \* the request whose bytes are in the stack buffer buf
  result,    \* of the last select() or send() on a client's socket: ok or error
  log,       \* every request handled, and for which client
  \* the connection to the authentication server
  toAuth,    \* numbers of requests, and -n for the rest of request n, which was answered
  fromAuth, authLink,
  wsaRefs    \* WSAStartup calls not yet undone by a WSACleanup

clientVars == <<peer, nsent, backlog>>
tableVars == <<clients, connected, name>>
authVars == <<toAuth, fromAuth, authLink, wsaRefs>>
vars == <<clientVars, stream, sent, tableVars, rooms, pc, ready, scratch, result,
          log, authVars>>

-----------------------------------------------------------------------------
RoomPacket == [id : RoomMsg, from : Socket, n : Nat, room : Room]
AccountPacket == [id : AccountMsg, from : Socket, n : Nat]
Packet == RoomPacket \cup AccountPacket
Cell == [p : Packet, k : Nat]

\* A line for a client: sent while handling request n of the log, about request
\* of (another one only when an answer is not that of the request waiting for it).
Text == {"joined", "left", "notIn", "userJoined", "userLeft", "chat", "answer"}
LineType == [n : Nat, text : Text, of : Nat]

TypeOK ==
  /\ peer \in [Socket -> {"idle", "dialed", "open", "closed", "reset"}]
  /\ nsent \in [Socket -> Nat]
  /\ backlog \in Seq(Socket)
  /\ stream \in [Socket -> Seq(Cell)]
  /\ sent \in [Socket -> Seq(LineType)]
  /\ clients \in Seq(Socket)
  /\ connected \in SUBSET Socket
  /\ name \in [Socket -> User \cup {Garbled}]
  /\ rooms \in [Socket -> Seq(Room)]
  /\ pc \in {"select", "accept", "serve", "auth", "down"}
  /\ ready \in SUBSET Socket
  /\ scratch \in Packet \cup {NoPacket}
  /\ result \in {"ok", "error"}
  /\ log \in Seq([by : Socket, p : Packet])
  /\ toAuth \in Seq(Int)
  /\ fromAuth \in Seq([of : Nat, k : Nat])
  /\ authLink \in {"up", "lost", "closed"}
  /\ wsaRefs \in 0..2

Init ==
  /\ peer = [s \in Socket |-> "idle"]
  /\ nsent = [s \in Socket |-> 0]
  /\ backlog = << >>
  /\ stream = [s \in Socket |-> << >>]
  /\ sent = [s \in Socket |-> << >>]
  /\ clients = << >>
  /\ connected = {}
  /\ name = userName
  /\ rooms = [s \in Socket |-> << >>]
  /\ pc = "select"
  /\ ready = {}
  /\ scratch = NoPacket
  /\ result = "ok"
  /\ log = << >>
  /\ toAuth = << >>
  /\ fromAuth = << >>
  \* connect() to the authentication server is not checked: it may have failed
  /\ authLink \in IF "authloss" \in Faults THEN {"up", "lost"} ELSE {"up"}
  /\ wsaRefs = 2

-----------------------------------------------------------------------------
(* Streams *)

Cells(p) == [k \in 1..Width[p.id] |-> [p |-> p, k |-> k]]

\* What one recv() returns and what it leaves behind.
Chunk(q) == SubSeq(q, 1, IF Len(q) < BufLen THEN Len(q) ELSE BufLen)

MutantRest(q) == q
Rest(q) == SubSeq(q, BufLen + 1, Len(q))

\* recv() and send() on the client's socket report an error: the connection was
\* reset, or the last WSACleanup has closed every socket.
Broken(s) == peer[s] = "reset" \/ wsaRefs = 0

Readable(s) == stream[s] # << >> \/ peer[s] \in {"closed", "reset"}

-----------------------------------------------------------------------------
(* Rooms and lines *)

Repeat(x, k) == [i \in 1..k |-> x]
Copies(q, r) == Cardinality({i \in DOMAIN q : q[i] = r})

\* The j-th smallest element of a set of integers
UpTo(S, i) == {k \in S : k <= i}
Nth(S, j) == CHOOSE i \in S : Cardinality(UpTo(S, i)) = j

\* The elements of q at the positions of K, in their order
Pick(q, K) == [j \in 1..Cardinality(K) |-> q[Nth(K, j)]]

\* The loop of LEAVE erases position i and then steps over the element that took
\* its place, so of two neighbours that match only the first is erased.
EraseRoom(q, r) ==
  LET erased[i \in 0..Len(q)] == i > 0 /\ q[i] = r /\ ~erased[i - 1]
  IN  Pick(q, {i \in 1..Len(q) : ~erased[i]})

\* A line sent while handling the request that is being appended to the log
Line(text) == [n |-> Len(log) + 1, text |-> text, of |-> Len(log) + 1]

\* send() to each client of the lines out[x]
Transmit(out) ==
  sent' = [x \in Socket |-> IF Broken(x) THEN sent[x] ELSE sent[x] \o out[x]]

\* A line to the client that is served, then lines to the members of a room in the
\* order of SERVER.clients.  Every send() overwrites result.
Tell(s, reply, notices) ==
  LET told == {i \in DOMAIN clients : notices[clients[i]] # << >>}
      lastTold == clients[CHOOSE i \in told : \A j \in told : j <= i]
  IN  /\ Transmit([x \in Socket |-> (IF x = s THEN reply ELSE << >>) \o notices[x]])
      /\ result' = IF told # {} THEN IF Broken(lastTold) THEN "error" ELSE "ok"
                   ELSE IF reply = << >> THEN result
                   ELSE IF Broken(s) THEN "error" ELSE "ok"

MutantNotices(p, text, membership) ==
  [x \in Socket |-> Repeat(Line(text), Copies(membership[x], p.room))]

\* "User ... has joined (left) the room!", once for every time the room is in a
\* client's list, to all but those with the name the request gives
Notices(p, text, membership) ==
  [x \in Socket |-> IF name[x] = userName[p.from] THEN << >>
                    ELSE Repeat(Line(text), Copies(membership[x], p.room))]

\* The pass goes on with the next readable client, or ends.
Resume(todo) == IF todo = {} THEN "select" ELSE "serve"
Done(s) == ready' = ready \ {s} /\ pc' = Resume(ready \ {s})

-----------------------------------------------------------------------------
(* The handlers of the five requests *)

\* Mutant: the two strings of the request are read in the wrong order.
MutantJoin(s, p) ==
  /\ p.id = "JOIN"
  /\ LET after == [rooms EXCEPT ![s] = Append(@, userName[p.from])]
     IN  /\ rooms' = after
         /\ Tell(s, <<Line("joined")>>, Notices(p, "userJoined", after))
  /\ Done(s)
  /\ UNCHANGED <<toAuth, authLink, wsaRefs>>

\* A room the client is in already is added again: the search for it assigns to
\* its own copy of the name and never sets roomExists.
Join(s, p) ==
  /\ p.id = "JOIN"
  /\ LET after == [rooms EXCEPT ![s] = Append(@, p.room)]
     IN  /\ rooms' = after
         /\ Tell(s, <<Line("joined")>>, Notices(p, "userJoined", after))
  /\ Done(s)
  /\ UNCHANGED <<toAuth, authLink, wsaRefs>>

MutantLeave(s, p) ==
  /\ p.id = "LEAVE"
  /\ rooms' = rooms
  /\ Tell(s, <<Line("left")>>, Notices(p, "userLeft", rooms))
  /\ Done(s)
  /\ UNCHANGED <<toAuth, authLink, wsaRefs>>

\* The room's members are told of the departure whether or not there was one.
Leave(s, p) ==
  /\ p.id = "LEAVE"
  /\ LET after == [rooms EXCEPT ![s] = EraseRoom(@, p.room)]
         text == IF p.room \in Range(rooms[s]) THEN "left" ELSE "notIn"
     IN  /\ rooms' = after
         /\ Tell(s, <<Line(text)>>, Notices(p, "userLeft", after))
  /\ Done(s)
  /\ UNCHANGED <<toAuth, authLink, wsaRefs>>

\* One copy for every time the room is in a client's list, the sender's included;
\* the sender need not be in the room.
SendMessage(s, p) ==
  /\ p.id = "SEND"
  /\ Tell(s, << >>, [x \in Socket |-> Repeat(Line("chat"), Copies(rooms[x], p.room))])
  /\ Done(s)
  /\ UNCHANGED <<rooms, toAuth, authLink, wsaRefs>>

\* A failed send() or recv() on the connection closes it and calls WSACleanup, which
\* Winsock refuses once the count is 0.
CloseAuthSocket ==
  /\ authLink' = "closed"
  /\ wsaRefs' = IF wsaRefs = 0 THEN 0 ELSE wsaRefs - 1

MutantUnsentRequest(s, p) ==
  /\ p.id \in AccountMsg
  /\ pc' = "auth"
  /\ UNCHANGED <<rooms, sent, result, ready, toAuth, authLink, wsaRefs>>

MutantRetriedRequest(s, p) ==
  /\ p.id \in AccountMsg
  /\ pc' = "auth"
  /\ toAuth' = toAuth \o <<Len(log) + 1, Len(log) + 1>>
  /\ UNCHANGED <<rooms, sent, result, ready, authLink, wsaRefs>>

MutantResultOfSend(s, p) ==
  /\ p.id \in AccountMsg
  /\ pc' = "auth"
  /\ toAuth' = Append(toAuth, Len(log) + 1)
  /\ result' \in {"ok", "error"}
  /\ UNCHANGED <<rooms, sent, ready, authLink, wsaRefs>>

\* Mutant: the server does not wait for the answer.
MutantUnwaited(s, p) ==
  /\ p.id \in AccountMsg
  /\ toAuth' = Append(toAuth, Len(log) + 1)
  /\ Done(s)
  /\ UNCHANGED <<rooms, sent, result, authLink, wsaRefs>>

\* CREATE and AUTHENTICATE up to the call of CLIENT.recvMessage
RequestAccount(s, p) ==
  /\ p.id \in AccountMsg
  /\ pc' = "auth"
  /\ \/ /\ authLink = "up"
        /\ toAuth' = Append(toAuth, Len(log) + 1)
        /\ UNCHANGED <<authLink, wsaRefs>>
     \/ /\ authLink # "up"
        /\ CloseAuthSocket
        /\ UNCHANGED toAuth
     \* the first send() after the server has closed its end still succeeds
     \/ /\ authLink = "lost"
        /\ UNCHANGED <<toAuth, authLink, wsaRefs>>
  /\ UNCHANGED <<rooms, sent, result, ready>>

Handle(s, p) ==
  /\ log' = Append(log, [by |-> s, p |-> p])
  /\ Join(s, p) \/ Leave(s, p) \/ SendMessage(s, p) \/ RequestAccount(s, p)

\* The id in the buffer is none of the five: the switch falls to its default.
Ignore(s) ==
  /\ Done(s)
  /\ UNCHANGED <<rooms, sent, result, log, toAuth, authLink, wsaRefs>>

-----------------------------------------------------------------------------
(* One pass of the server loop *)

\* FD_SET drops a socket when the set is full; the listening socket is in first.
Polled ==
  {clients[i] : i \in {j \in DOMAIN clients :
       /\ clients[j] \in connected
       /\ Cardinality({k \in 1..(j - 1) : clients[k] \in connected}) + 1 < FdSetSize}}

MutantListenerLast ==
  /\ pc = "select"
  /\ wsaRefs > 0
  /\ ready' = {s \in Polled : Readable(s)}
  /\ backlog # << >> \/ ready' # {}
  /\ pc' = IF ready' # {} THEN "serve" ELSE "accept"
  /\ result' = "ok"
  /\ UNCHANGED <<clientVars, stream, sent, tableVars, rooms, scratch, log, authVars>>

MutantFirstOnly ==
  /\ pc = "select"
  /\ wsaRefs > 0
  /\ LET readable == {i \in DOMAIN clients : clients[i] \in Polled /\ Readable(clients[i])}
     IN  ready' = {clients[i] : i \in {j \in readable : \A k \in readable : j <= k}}
  /\ backlog # << >> \/ ready' # {}
  /\ pc' = IF backlog # << >> THEN "accept" ELSE "serve"
  /\ result' = "ok"
  /\ UNCHANGED <<clientVars, stream, sent, tableVars, rooms, scratch, log, authVars>>

Select ==
  /\ pc = "select"
  /\ wsaRefs > 0
  /\ ready' = {s \in Polled : Readable(s)}
  /\ backlog # << >> \/ ready' # {}
  /\ pc' = IF backlog # << >> THEN "accept" ELSE "serve"
  /\ result' = "ok"
  /\ UNCHANGED <<clientVars, stream, sent, tableVars, rooms, scratch, log, authVars>>

\* 500 ms without a readable socket: the loop starts again.
SelectTimeout ==
  /\ pc = "select"
  /\ wsaRefs > 0
  /\ backlog = << >>
  /\ \A s \in Polled : ~Readable(s)
  /\ result' = "ok"
  /\ UNCHANGED <<clientVars, stream, sent, tableVars, rooms, pc, ready, scratch, log,
                 authVars>>

SelectFails ==
  /\ pc = "select"
  /\ wsaRefs = 0
  /\ pc' = "down"
  /\ result' = "error"
  /\ UNCHANGED <<clientVars, stream, sent, tableVars, rooms, ready, scratch, log,
                 authVars>>

\* accept() and the blocking recv() of the user name, one cell.  Whatever follows
\* the name in the same recv() is taken for a part of it.  The array it is read into
\* may share its place on the stack with the one the requests are read into.
Register(s) ==
  /\ pc = "accept"
  /\ backlog # << >> /\ Head(backlog) = s
  /\ peer[s] \in {"open", "closed"}
  /\ backlog' = Tail(backlog)
  /\ clients' = Append(clients, s)
  /\ connected' = connected \cup {s}
  /\ name' = [name EXCEPT ![s] = IF stream[s] = << >> \/ BufLen = 1
                                 THEN userName[s] ELSE Garbled]
  /\ stream' = [stream EXCEPT ![s] = SubSeq(@, BufLen, Len(@))]
  /\ scratch' \in {scratch, NoPacket}
  /\ pc' = Resume(ready)
  /\ UNCHANGED <<peer, nsent, sent, rooms, ready, result, log, authVars>>

\* The client died first.  Either accept() reports it, or the recv() after it
\* returns -1, which is used as a length, and the server ends.
AcceptFails(s) ==
  /\ pc = "accept"
  /\ backlog # << >> /\ Head(backlog) = s
  /\ peer[s] = "reset"
  /\ \/ backlog' = Tail(backlog) /\ pc' = Resume(ready)
     \/ backlog' = backlog /\ pc' = "down"
  /\ UNCHANGED <<peer, nsent, stream, sent, tableVars, rooms, ready, scratch, result,
                 log, authVars>>

\* The loop over SERVER.clients has reached s.
Serving(s) ==
  /\ s \in ready \cap connected
  /\ \E i \in DOMAIN clients :
       clients[i] = s /\ \A j \in 1..(i - 1) : clients[j] \notin ready

\* The rest of the buffer is not initialised: a tail of at most four bytes leaves
\* the id and the fields of the request before it in place.
Reread(s) ==
  /\ scratch # NoPacket
  /\ Len(log) < MaxLog
  /\ Handle(s, scratch)
  /\ UNCHANGED scratch

MutantNoContinue(s) ==
  /\ pc = "serve" /\ Serving(s)
  /\ ~Broken(s)
  /\ stream[s] = << >> /\ peer[s] = "closed"
  /\ connected' = connected \ {s}
  /\ (Ignore(s) /\ UNCHANGED scratch) \/ Reread(s)
  /\ UNCHANGED <<clientVars, stream, clients, name, fromAuth>>
MutantStillConnected(s) ==
  /\ pc = "serve" /\ Serving(s)
  /\ ~Broken(s)
  /\ stream[s] = << >> /\ peer[s] = "closed"
  /\ Done(s)
  /\ UNCHANGED <<clientVars, stream, sent, tableVars, rooms, scratch, result, log,
                 authVars>>

\* recv() returned 0
Disconnect(s) ==
  /\ pc = "serve" /\ Serving(s)
  /\ ~Broken(s)
  /\ stream[s] = << >> /\ peer[s] = "closed"
  /\ connected' = connected \ {s}
  /\ Done(s)
  /\ UNCHANGED <<clientVars, stream, sent, clients, name, rooms, scratch, result, log,
                 authVars>>

\* recv() returned data that starts with a request; what follows it is dropped.
ReadPacket(s) ==
  /\ pc = "serve" /\ Serving(s)
  /\ ~Broken(s)
  /\ stream[s] # << >>
  /\ Head(Chunk(stream[s])).k = 1
  /\ scratch' = Head(stream[s]).p
  /\ Handle(s, Head(stream[s]).p)
  /\ stream' = [stream EXCEPT ![s] = Rest(@)]
  /\ UNCHANGED <<clientVars, tableVars, fromAuth>>

\* recv() returned data that starts inside a request.
ReadTail(s) ==
  /\ pc = "serve" /\ Serving(s)
  /\ ~Broken(s)
  /\ stream[s] # << >>
  /\ Head(Chunk(stream[s])).k # 1
  /\ \/ Ignore(s) /\ scratch' = NoPacket
     \/ Len(Chunk(stream[s])) = 1 /\ Reread(s)
  /\ stream' = [stream EXCEPT ![s] = Rest(@)]
  /\ UNCHANGED <<clientVars, tableVars, fromAuth>>

\* recv() returned -1: only 0 counts as a disconnection, so the buffer is parsed.
ReadError(s) ==
  /\ pc = "serve" /\ Serving(s)
  /\ Broken(s)
  /\ \/ Ignore(s) /\ UNCHANGED scratch
     \/ Reread(s)
  /\ UNCHANGED <<clientVars, stream, tableVars, fromAuth>>

-----------------------------------------------------------------------------
(* CREATE and AUTHENTICATE from CLIENT.recvMessage on *)

SendAnswer(s, request) ==
  Tell(s, <<[n |-> Len(log), text |-> "answer", of |-> request]>>, [x \in Socket |-> << >>])

NoAnswer == UNCHANGED <<sent, result>>

\* recvMessage returned data.  Data that starts inside an answer does not parse and
\* is not passed on, except that CREATE takes any non-zero word for a success.  Some
\* whole answers do not parse either: a failure without a reason, a short login.
ReceiveAnswer(s) ==
  /\ pc = "auth" /\ Serving(s)
  /\ authLink = "up"
  /\ fromAuth # << >>
  /\ result = "ok"
  /\ LET first == Head(fromAuth)
     IN  \/ first.k = 1 /\ SendAnswer(s, first.of)
         \/ NoAnswer
         \/ /\ first.k # 1 /\ log[Len(log)].p.id = "CREATE"
            /\ SendAnswer(s, first.of)
  /\ fromAuth' = Rest(fromAuth)
  /\ Done(s)
  /\ UNCHANGED <<clientVars, stream, tableVars, rooms, scratch, log, toAuth, authLink,
                 wsaRefs>>

\* recvMessage returned the error code 1, which the handler uses as a length, or 0.
\* Reading the answer runs past that length.  The process aborts, or what it finds
\* there does not parse, or CREATE takes it for a success.
AnswerLost(s) ==
  /\ pc = "auth" /\ Serving(s)
  /\ authLink # "up"
  /\ CloseAuthSocket \/ (authLink = "lost" /\ UNCHANGED <<authLink, wsaRefs>>)
  /\ \/ pc' = "down" /\ UNCHANGED ready /\ NoAnswer
     \/ result = "ok" /\ Done(s) /\ NoAnswer
     \/ /\ log[Len(log)].p.id = "CREATE" /\ wsaRefs' > 0
        /\ result = "ok" /\ Done(s)
        /\ SendAnswer(s, 0)
  /\ UNCHANGED <<clientVars, stream, tableVars, rooms, scratch, log, toAuth, fromAuth>>

\* The buffer for the answer is created with the size result: when the last line of
\* this pass could not be sent, result is -1 and the process ends.
AnswerAborts(s) ==
  /\ pc = "auth" /\ Serving(s)
  /\ authLink = "up"
  /\ fromAuth # << >>
  /\ result = "error"
  /\ pc' = "down"
  /\ fromAuth' = Rest(fromAuth)
  /\ NoAnswer
  /\ UNCHANGED <<clientVars, stream, tableVars, rooms, ready, scratch, log, toAuth,
                 authLink, wsaRefs>>

ServerStep ==
  \/ Select \/ SelectFails
  \/ \E s \in Socket :
       \/ Register(s) \/ AcceptFails(s)
       \/ Disconnect(s) \/ ReadPacket(s) \/ ReadTail(s) \/ ReadError(s)
       \/ ReceiveAnswer(s) \/ AnswerLost(s) \/ AnswerAborts(s)

-----------------------------------------------------------------------------
(* The environment: clients and their connections *)

\* Nothing that happens after the end of the process is of interest.
Running == pc # "down"

serverVars == <<sent, tableVars, rooms, pc, ready, scratch, result, log>>

Connect(s) ==
  /\ Running
  /\ peer[s] = "idle"
  /\ peer' = [peer EXCEPT ![s] = "dialed"]
  /\ backlog' = Append(backlog, s)
  /\ UNCHANGED <<nsent, stream, serverVars, authVars>>

SendName(s) ==
  /\ Running
  /\ peer[s] = "dialed"
  /\ peer' = [peer EXCEPT ![s] = "open"]
  /\ UNCHANGED <<nsent, backlog, stream, serverVars, authVars>>

\* The requests a client can build: its menu entries 1 to 5.
Requests(s) ==
  LET n == nsent[s] + 1
  IN  {[id |-> t, from |-> s, n |-> n, room |-> r] : t \in Kinds \cap RoomMsg, r \in Room}
      \cup {[id |-> t, from |-> s, n |-> n] : t \in Kinds \cap AccountMsg}

ClientSend(s, p) ==
  /\ Running
  /\ peer[s] = "open"
  /\ nsent[s] < MaxPackets
  /\ nsent' = [nsent EXCEPT ![s] = @ + 1]
  /\ stream' = [stream EXCEPT ![s] = @ \o Cells(p)]
  /\ UNCHANGED <<peer, backlog, serverVars, authVars>>

\* Menu entry 6: shutdown and closesocket
Exit(s) ==
  /\ Running
  /\ "exit" \in Faults
  /\ peer[s] = "open"
  /\ peer' = [peer EXCEPT ![s] = "closed"]
  /\ UNCHANGED <<nsent, backlog, stream, serverVars, authVars>>

\* The client's window is closed or its process dies: the connection is reset.
Kill(s) ==
  /\ Running
  /\ "kill" \in Faults
  /\ peer[s] \in {"dialed", "open"}
  /\ peer' = [peer EXCEPT ![s] = "reset"]
  /\ stream' = [stream EXCEPT ![s] = << >>]
  /\ UNCHANGED <<nsent, backlog, serverVars, authVars>>

\* A line was unread when the socket was closed, or is sent to the closed socket:
\* TCP answers it with a reset, which discards what the server has not received.
ResetAfterClose(s) ==
  /\ Running
  /\ "rst" \in Faults
  /\ peer[s] = "closed" /\ sent[s] # << >>
  /\ peer' = [peer EXCEPT ![s] = "reset"]
  /\ stream' = [stream EXCEPT ![s] = << >>]
  /\ UNCHANGED <<nsent, backlog, serverVars, authVars>>

(* The environment: the authentication server *)

Number(x) == IF x < 0 THEN -x ELSE x

\* recv() returns the first request or rest of one; what came with it is dropped.
Dropped(q) == {SubSeq(q, i, Len(q)) : i \in 2..(Len(q) + 1)}

\* It reads one request, drops what came with it, and answers.
AuthAnswer == [k \in 1..AnswerWidth |-> [of |-> Number(Head(toAuth)), k |-> k]]
AuthAnswers ==
  /\ Running
  /\ authLink = "up" /\ toAuth # << >>
  /\ fromAuth' = fromAuth \o AuthAnswer
  /\ toAuth' \in Dropped(toAuth)
  /\ UNCHANGED <<clientVars, stream, serverVars, authLink, wsaRefs>>

\* The last bytes of the padding arrive after the rest of a request.  It is answered at
\* once, and if they are one to four bytes that arrive by themselves it is handled and
\* answered again.
AuthRepeats ==
  /\ Running
  /\ "repeat" \in Faults
  /\ authLink = "up" /\ toAuth # << >> /\ Head(toAuth) > 0
  /\ fromAuth' = fromAuth \o AuthAnswer
  /\ toAuth' = <<-Head(toAuth)>> \o Tail(toAuth)
  /\ UNCHANGED <<clientVars, stream, serverVars, authLink, wsaRefs>>

\* They are dropped, and so are the requests that arrive with them.
AuthSkipsRest ==
  /\ Running
  /\ "repeat" \in Faults
  /\ authLink = "up" /\ toAuth # << >> /\ Head(toAuth) < 0
  /\ toAuth' \in Dropped(toAuth)
  /\ UNCHANGED <<clientVars, stream, serverVars, fromAuth, authLink, wsaRefs>>

\* "Error Invalid Data...": a request that does not parse gets no answer.
AuthIgnores ==
  /\ Running
  /\ "unparsed" \in Faults
  /\ authLink = "up" /\ toAuth # << >>
  /\ toAuth' \in Dropped(toAuth)
  /\ UNCHANGED <<clientVars, stream, serverVars, fromAuth, authLink, wsaRefs>>

AuthDies ==
  /\ Running
  /\ "authloss" \in Faults
  /\ authLink = "up"
  /\ authLink' = "lost"
  /\ toAuth' = << >> /\ fromAuth' = << >>
  /\ UNCHANGED <<clientVars, stream, serverVars, wsaRefs>>

AuthStep == AuthAnswers \/ AuthRepeats \/ AuthSkipsRest \/ AuthIgnores

ClientStep(s) ==
  \/ Connect(s) \/ SendName(s) \/ Exit(s) \/ Kill(s) \/ ResetAfterClose(s)
  \/ \E p \in Requests(s) : ClientSend(s, p)

-----------------------------------------------------------------------------
\* The process has ended.
Stopped == pc = "down" /\ UNCHANGED vars

Next ==
  \/ ServerStep \/ SelectTimeout
  \/ \E s \in Socket : ClientStep(s)
  \/ AuthStep \/ AuthDies
  \/ Stopped

Spec == Init /\ [][Next]_vars

\* The server's thread keeps running, a client sends its name right after it has
\* connected, and the authentication server's loop takes its requests.  No user is
\* obliged to type anything.
Fairness ==
  /\ WF_vars(ServerStep)
  /\ WF_vars(AuthStep)
  /\ \A s \in Socket : WF_vars(SendName(s))

LiveSpec == Spec /\ Fairness
=============================================================================
