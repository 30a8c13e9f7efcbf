----------------------------- MODULE AuthServer -----------------------------
(***************************************************************************)
(* The authentication server of AuthenticationServer_HA: main.cpp, the     *)
(* loop that polls the chat server's connection and handles REGISTER and   *)
(* LOGIN, and AuthDB.cpp, the statements a request sends to the database,  *)
(* one action for each.  Between any two of them the process or the        *)
(* connection to the database can end; the process is started again by     *)
(* hand, and so is the chat server, which has a new connection each time.  *)
(*                                                                         *)
(* Streams are sequences of cells as in ChatServer.tla: a request is Width *)
(* cells, padding included, and recv() takes at most BufLen of them.       *)
(*                                                                         *)
(* The database is external: table user with an automatic id, and table    *)
(* web_auth in which email is unique.                                      *)
(***************************************************************************)
EXTENDS Integers, Sequences, FiniteSets

CONSTANTS
  Conn,          \* the connections that chat servers make
  Email,
  LongEmail,     \* those that do not fit in a request with their password
  OddEmail,      \* those with a quote or a backslash, which change the text of a statement
  Password,
  ShortPassword, \* those of less than eight characters
  NoRequest,     \* the stack buffer holds nothing that parses as a request
  NoAccount,     \* an address that has no row in web_auth
  BufLen,        \* cells that one recv() of 128 bytes can return
  Width,         \* cells of a request on the wire, padding included
  Faults,        \* what may go wrong around the server
  MaxRequests,   \* bound: requests on all connections together
  MaxHandled,    \* bound: a stale buffer is handled again only below this number
  MaxFailures    \* bound: failures of the process and of the database

FaultKind == {"crash", "dbfail", "gone"}

Request == [id : {"REGISTER", "LOGIN"}, email : Email, password : Password,
            from : Conn, n : 1..MaxRequests]
Row == [by : Request, userId : Nat]

ASSUME ConstantsAssumption ==
  /\ LongEmail \subseteq Email /\ OddEmail \subseteq Email
  /\ ShortPassword \subseteq Password
  /\ BufLen \in Nat \ {0}
  /\ Width \in Nat \ {0}
  /\ Faults \subseteq FaultKind
  /\ NoRequest \notin Request
  /\ NoAccount \notin Request \cup Row
  /\ MaxRequests \in Nat /\ MaxHandled \in Nat /\ MaxFailures \in Nat

VARIABLES
  \* the chat servers' ends
  peer,      \* idle, dialed (connect done), open (name sent), closed, reset
  nsent,     \* number of requests sent
  backlog,   \* connections not accepted yet
  stream,    \* cells the server has not received
  answers,   \* the answers sent to each connection
  \* the server
  clients,   \* SERVER.clients
  connected, \* those whose flag connected is set
  pc,        \* select, accept, serve, a statement of the database, reply, down
  ready,     \* clients of socketsReadyForReading that this pass has not served
  scratch,   \* the request whose bytes are in the stack buffer buf
  job,       \* the request that is handled, its user id and its outcome
  handled,   \* number of requests handled
  \* the database
  users,     \* ids in table user
  nextId,    \* the next automatic id
  webAuth,   \* table web_auth by email: the request that made the row, and userId
  link,      \* connection to the database: up, lost, none (Connect failed)
  failures   \* number of failures

peerVars == <<peer, nsent>>
tableVars == <<clients, connected>>
dbVars == <<users, nextId, webAuth>>
faultVars == <<link, failures>>
vars == <<peerVars, backlog, stream, answers, tableVars, pc, ready, scratch, job, handled,
          dbVars, faultVars>>

-----------------------------------------------------------------------------
Cell == [r : Request, k : 1..Width]
Outcome == {"ok", "refused", "failed"}
Statement == {"insertUser", "lastUser", "insertAuth", "deleteUser",
              "findAuth", "updateUser", "findUser"}
Handling == Statement \cup {"reply"}

TypeOK ==
  /\ peer \in [Conn -> {"idle", "dialed", "open", "closed", "reset"}]
  /\ nsent \in [Conn -> 0..MaxRequests]
  /\ backlog \in Seq(Conn)
  /\ stream \in [Conn -> Seq(Cell)]
  /\ answers \in [Conn -> Seq([request : Request, outcome : Outcome])]
  /\ clients \in Seq(Conn)
  /\ connected \subseteq Conn
  /\ pc \in {"select", "accept", "serve", "down"} \cup Handling
  /\ ready \subseteq Conn
  /\ scratch \in Request \cup {NoRequest}
  /\ job \in [request : Request \cup {NoRequest}, id : Nat, outcome : Outcome]
  /\ handled \in Nat
  /\ users \subseteq 1..(nextId - 1)
  /\ nextId \in Nat \ {0}
  /\ webAuth \in [Email -> Row \cup {NoAccount}]
  /\ link \in {"up", "lost", "none"}
  /\ failures \in Nat

NoJob == [request |-> NoRequest, id |-> 0, outcome |-> "failed"]

\* Connect() may fail, in connect() or in setSchema(); its result is not looked at.
Connected == {"up"} \cup (IF "dbfail" \in Faults THEN {"lost", "none"} ELSE {})

Init ==
  /\ peer = [c \in Conn |-> "idle"]
  /\ nsent = [c \in Conn |-> 0]
  /\ backlog = << >>
  /\ stream = [c \in Conn |-> << >>]
  /\ answers = [c \in Conn |-> << >>]
  /\ clients = << >> /\ connected = {}
  /\ pc = "select" /\ ready = {}
  /\ scratch = NoRequest /\ job = NoJob /\ handled = 0
  /\ users = {} /\ nextId = 1
  /\ webAuth = [e \in Email |-> NoAccount]
  /\ link \in Connected
  /\ failures = 0

-----------------------------------------------------------------------------
(* The database *)

Failure == failures < MaxFailures /\ failures' = failures + 1

\* A statement is executed, or throws; it may also throw after it was executed,
\* because the connection ends before the database has answered.
Executed == link = "up" /\ UNCHANGED faultVars
Thrown ==
  \/ link = "lost" /\ UNCHANGED faultVars
  \/ link = "up" /\ "dbfail" \in Faults /\ Failure /\ UNCHANGED link
AnswerLost == link = "up" /\ "dbfail" \in Faults /\ Failure /\ link' = "lost"

\* m_pConnection was never set.
Undefined == link = "none" /\ UNCHANGED faultVars

AddUser == users' = users \cup {nextId} /\ nextId' = nextId + 1

Finish(outcome) == pc' = "reply" /\ job' = [job EXCEPT !.outcome = outcome]
Goto(statement) == pc' = statement /\ UNCHANGED job
Abort == pc' = "down" /\ UNCHANGED job

InsertUser ==
  /\ pc = "insertUser"
  /\ \/ Executed /\ AddUser /\ Goto("lastUser")
     \/ AnswerLost /\ AddUser /\ Finish("failed")
     \/ Thrown /\ UNCHANGED <<users, nextId>> /\ Finish("failed")
     \/ Undefined /\ UNCHANGED <<users, nextId>> /\ Abort
  /\ UNCHANGED webAuth

\* Mutants: the smallest id is read; the function goes on with no id when it throws.
MutantLastUser ==
  /\ pc = "lastUser"
  /\ \/ /\ Executed /\ pc' = "insertAuth"
        /\ job' = [job EXCEPT !.id = CHOOSE u \in users : \A v \in users : u <= v]
     \/ (Thrown \/ AnswerLost) /\ Finish("failed")
  /\ UNCHANGED dbVars

MutantNoReturn ==
  /\ pc = "lastUser"
  /\ \/ /\ Executed
        /\ job' = [job EXCEPT !.id = CHOOSE u \in users : \A v \in users : v <= u]
     \/ (Thrown \/ AnswerLost) /\ job' = [job EXCEPT !.id = -1]
  /\ pc' = "insertAuth"
  /\ UNCHANGED dbVars

\* SELECT * FROM user ORDER BY id DESC LIMIT 1
LastUser ==
  /\ pc = "lastUser"
  /\ \/ /\ Executed /\ pc' = "insertAuth"
        /\ job' = [job EXCEPT !.id = CHOOSE u \in users : \A v \in users : v <= u]
     \/ (Thrown \/ AnswerLost) /\ Finish("failed")
  /\ UNCHANGED dbVars

\* Mutant: a duplicate is taken for a success.
MutantInsertAuth ==
  /\ pc = "insertAuth"
  /\ LET r == job.request
         row == [webAuth EXCEPT ![r.email] = [by |-> r, userId |-> job.id]]
     IN  \/ /\ Executed
            /\ webAuth' = IF webAuth[r.email] = NoAccount THEN row ELSE webAuth
            /\ Finish("ok")
         \/ (Thrown \/ AnswerLost) /\ UNCHANGED webAuth /\ Goto("deleteUser")
  /\ UNCHANGED <<users, nextId>>

\* It throws in prepareStatement(), or in execute() if the address has a row.
InsertAuth ==
  /\ pc = "insertAuth"
  /\ LET r == job.request
         row == [webAuth EXCEPT ![r.email] = [by |-> r, userId |-> job.id]]
     IN  \/ /\ Executed /\ webAuth[r.email] = NoAccount
            /\ webAuth' = row /\ Finish("ok")
         \/ /\ AnswerLost /\ webAuth[r.email] = NoAccount
            /\ webAuth' = row /\ Goto("deleteUser")
         \/ /\ (Executed /\ webAuth[r.email] # NoAccount) \/ Thrown
            /\ UNCHANGED webAuth /\ Goto("deleteUser")
         \/ Thrown /\ UNCHANGED webAuth /\ Finish("failed")
  /\ UNCHANGED <<users, nextId>>

\* Mutant: the user of a duplicate stays.
MutantDeleteUser ==
  /\ pc = "deleteUser"
  /\ UNCHANGED <<users, faultVars>>
  /\ Finish("failed")
  /\ UNCHANGED <<nextId, webAuth>>

\* What it throws is dropped.
DeleteUser ==
  /\ pc = "deleteUser"
  /\ \/ (Executed \/ AnswerLost) /\ users' = users \ {job.id}
     \/ Thrown /\ UNCHANGED users
  /\ Finish("failed")
  /\ UNCHANGED <<nextId, webAuth>>

Found(id) == pc' = "updateUser" /\ job' = [job EXCEPT !.id = id]

\* Mutant: the passwords are not compared.
MutantFindAuth ==
  /\ pc = "findAuth"
  /\ LET r == job.request
         row == webAuth[r.email]
         matches == row # NoAccount
     IN  \/ Executed /\ r.email \notin OddEmail /\ matches /\ Found(row.userId)
         \/ Executed /\ (r.email \in OddEmail \/ ~matches) /\ Finish("refused")
         \/ /\ Executed /\ r.email \in OddEmail
            /\ Finish("failed") \/ \E id \in users \cup {0} : Found(id)
         \/ (Thrown \/ AnswerLost) /\ Finish("failed")
         \/ Undefined /\ Abort
  /\ UNCHANGED dbVars

\* SELECT * FROM web_auth WHERE email = ..., and the comparison of the passwords.  The
\* address is put into the text of the statement, which with a quote or a backslash in
\* it is another statement: it throws, finds nothing that matches, or finds a row of
\* which only its own text says what is in it.
FindAuth ==
  /\ pc = "findAuth"
  /\ LET r == job.request
         row == webAuth[r.email]
         matches == row # NoAccount /\ row.by.password = r.password
     IN  \/ Executed /\ r.email \notin OddEmail /\ matches /\ Found(row.userId)
         \/ Executed /\ (r.email \in OddEmail \/ ~matches) /\ Finish("refused")
         \/ /\ Executed /\ r.email \in OddEmail
            /\ Finish("failed") \/ \E id \in users \cup {0} : Found(id)
         \/ (Thrown \/ AnswerLost) /\ Finish("failed")
         \/ Undefined /\ Abort
  /\ UNCHANGED dbVars

\* UPDATE user SET last_login: nobody catches what it throws.
UpdateUser ==
  /\ pc = "updateUser"
  /\ \/ Executed /\ Goto("findUser")
     \/ (Thrown \/ AnswerLost) /\ Abort
  /\ UNCHANGED dbVars

\* SELECT * FROM user WHERE id = ...: reading a row that is not there throws.
FindUser ==
  /\ pc = "findUser"
  /\ \/ Executed /\ IF job.id \in users THEN Finish("ok") ELSE Abort
     \/ (Thrown \/ AnswerLost) /\ Finish("failed")
  /\ UNCHANGED dbVars

Execute ==
  /\ InsertUser \/ LastUser \/ InsertAuth \/ DeleteUser \/ FindAuth \/ UpdateUser \/ FindUser
  /\ UNCHANGED <<peerVars, backlog, stream, answers, tableVars, ready, scratch, handled>>

-----------------------------------------------------------------------------
(* The handlers *)

Chunk(q) == SubSeq(q, 1, IF Len(q) < BufLen THEN Len(q) ELSE BufLen)
Rest(q) == SubSeq(q, BufLen + 1, Len(q))

\* recv() and send() on the connection report an error.
Broken(c) == peer[c] = "reset"
Readable(c) == stream[c] # << >> \/ peer[c] \in {"closed", "reset"}

Resume(todo) == IF todo = {} THEN "select" ELSE "serve"
Done(c) == ready' = ready \ {c} /\ pc' = Resume(ready \ {c})

\* The loop over SERVER.clients has reached c.
Serving(c) ==
  /\ c \in ready \cap connected
  /\ \E i \in DOMAIN clients : clients[i] = c /\ \A j \in 1..(i - 1) : clients[j] \notin ready

\* A request that does not fit in the buffer does not parse, and gets no answer.  A
\* short password is refused before the database is asked.
Handle(c, r) ==
  /\ handled' = handled + 1
  /\ \/ /\ r.email \in LongEmail
        /\ Done(c)
        /\ job' = NoJob
     \/ /\ r.email \notin LongEmail
        /\ UNCHANGED ready
        /\ job' = [request |-> r, id |-> 0, outcome |-> "failed"]
        /\ pc' = IF r.id = "LOGIN" THEN "findAuth"
                 ELSE IF r.password \in ShortPassword THEN "reply" ELSE "insertUser"

Ignore(c) == Done(c) /\ job' = NoJob /\ UNCHANGED handled

\* The rest of the buffer is not initialised: a tail of at most four bytes leaves the
\* request before it in place.
Reread(c) == scratch # NoRequest /\ handled < MaxHandled /\ Handle(c, scratch)

\* Mutant: a refusal is not sent.
MutantReply(c) ==
  /\ pc = "reply" /\ Serving(c)
  /\ answers' = IF Broken(c) \/ job.outcome = "refused" THEN answers
                ELSE [answers EXCEPT ![c] =
                        Append(@, [request |-> job.request, outcome |-> job.outcome])]
  /\ Done(c)
  /\ job' = NoJob
  /\ UNCHANGED <<peerVars, backlog, stream, tableVars, scratch, handled, dbVars, faultVars>>

Reply(c) ==
  /\ pc = "reply" /\ Serving(c)
  /\ answers' = IF Broken(c) THEN answers
                ELSE [answers EXCEPT ![c] =
                        Append(@, [request |-> job.request, outcome |-> job.outcome])]
  /\ Done(c)
  /\ job' = NoJob
  /\ UNCHANGED <<peerVars, backlog, stream, tableVars, scratch, handled, dbVars, faultVars>>

-----------------------------------------------------------------------------
(* One pass of the server loop *)

\* Mutant: only the first of the readable sockets is served.
MutantPolled ==
  LET readable(i) == clients[i] \in connected /\ Readable(clients[i])
  IN  {clients[i] : i \in {k \in DOMAIN clients : readable(k) /\ \A j \in 1..(k - 1) : ~readable(j)}}

Polled == {c \in connected : Readable(c)}

Select ==
  /\ pc = "select"
  /\ ready' = Polled
  /\ backlog # << >> \/ Polled # {}
  /\ pc' = IF backlog # << >> THEN "accept" ELSE "serve"
  /\ UNCHANGED <<peerVars, backlog, stream, answers, tableVars, scratch, job, handled,
                 dbVars, faultVars>>

\* 500 ms without a readable socket
SelectTimeout ==
  /\ pc = "select"
  /\ backlog = << >> /\ Polled = {}
  /\ UNCHANGED vars

\* accept() and the recv() of the name, one cell, and of what follows it
Register(c) ==
  /\ pc = "accept"
  /\ backlog # << >> /\ Head(backlog) = c
  /\ peer[c] \in {"open", "closed"}
  /\ backlog' = Tail(backlog)
  /\ clients' = Append(clients, c)
  /\ connected' = connected \cup {c}
  /\ stream' = [stream EXCEPT ![c] = SubSeq(@, BufLen, Len(@))]
  /\ scratch' \in {scratch, NoRequest}
  /\ pc' = Resume(ready)
  /\ UNCHANGED <<peerVars, answers, ready, job, handled, dbVars, faultVars>>

\* accept() fails, or recv() returns -1, which is used as a length.
AcceptFails(c) ==
  /\ pc = "accept"
  /\ backlog # << >> /\ Head(backlog) = c
  /\ peer[c] = "reset"
  /\ \/ backlog' = Tail(backlog) /\ pc' = Resume(ready)
     \/ backlog' = backlog /\ pc' = "down"
  /\ UNCHANGED <<peerVars, stream, answers, tableVars, ready, scratch, job, handled,
                 dbVars, faultVars>>

\* recv() returned 0
Disconnect(c) ==
  /\ pc = "serve" /\ Serving(c)
  /\ stream[c] = << >> /\ peer[c] = "closed"
  /\ connected' = connected \ {c}
  /\ Done(c)
  /\ UNCHANGED <<peerVars, backlog, stream, answers, clients, scratch, job, handled,
                 dbVars, faultVars>>

\* recv() returned data that starts with a request; what follows it is dropped.
ReadRequest(c) ==
  /\ pc = "serve" /\ Serving(c)
  /\ stream[c] # << >> /\ Head(stream[c]).k = 1
  /\ scratch' = Head(stream[c]).r
  /\ Handle(c, Head(stream[c]).r)
  /\ stream' = [stream EXCEPT ![c] = Rest(@)]
  /\ UNCHANGED <<peerVars, backlog, answers, tableVars, dbVars, faultVars>>

\* recv() returned data that starts inside a request.
ReadTail(c) ==
  /\ pc = "serve" /\ Serving(c)
  /\ stream[c] # << >> /\ Head(stream[c]).k # 1
  /\ \/ Ignore(c) /\ scratch' = NoRequest
     \/ Len(Chunk(stream[c])) = 1 /\ Reread(c) /\ UNCHANGED scratch
  /\ stream' = [stream EXCEPT ![c] = Rest(@)]
  /\ UNCHANGED <<peerVars, backlog, answers, tableVars, dbVars, faultVars>>

\* recv() returned -1: only 0 counts as a disconnection, so the buffer is parsed.
ReadError(c) ==
  /\ pc = "serve" /\ Serving(c)
  /\ Broken(c)
  /\ Ignore(c) \/ Reread(c)
  /\ UNCHANGED <<peerVars, backlog, stream, answers, tableVars, scratch, dbVars, faultVars>>

ServerStep ==
  \/ Select \/ Execute
  \/ \E c \in Conn :
       \/ Register(c) \/ AcceptFails(c) \/ Disconnect(c)
       \/ ReadRequest(c) \/ ReadTail(c) \/ ReadError(c) \/ Reply(c)

-----------------------------------------------------------------------------
(* The environment *)

serverVars == <<answers, tableVars, pc, ready, scratch, job, handled, dbVars, faultVars>>

\* A chat server starts when the one before it has ended: both use the same port.
Connect(c) ==
  /\ pc # "down"
  /\ peer[c] = "idle" /\ \A d \in Conn : peer[d] \in {"idle", "closed", "reset"}
  /\ peer' = [peer EXCEPT ![c] = "dialed"]
  /\ backlog' = Append(backlog, c)
  /\ UNCHANGED <<nsent, stream, serverVars>>

SendName(c) ==
  /\ peer[c] = "dialed"
  /\ peer' = [peer EXCEPT ![c] = "open"]
  /\ UNCHANGED <<nsent, backlog, stream, serverVars>>

Sent == {x \in Conn \X (1..MaxRequests) : x[2] <= nsent[x[1]]}

\* The chat server waits for an answer before it sends the next request.
SendRequest(c, r) ==
  /\ peer[c] = "open"
  /\ Cardinality(Sent) < MaxRequests /\ nsent[c] <= Len(answers[c])
  /\ r.from = c /\ r.n = nsent[c] + 1
  /\ nsent' = [nsent EXCEPT ![c] = @ + 1]
  /\ stream' = [stream EXCEPT ![c] = @ \o [k \in 1..Width |-> [r |-> r, k |-> k]]]
  /\ UNCHANGED <<peer, backlog, serverVars>>

\* The chat server ends, with or without a reset of its connection.
Leave(c) ==
  /\ "gone" \in Faults
  /\ peer[c] \in {"dialed", "open"}
  /\ \/ /\ peer' = [peer EXCEPT ![c] = "reset"]
        /\ stream' = [stream EXCEPT ![c] = << >>]
     \/ /\ peer[c] = "open"
        /\ peer' = [peer EXCEPT ![c] = "closed"]
        /\ UNCHANGED stream
  /\ UNCHANGED <<nsent, backlog, serverVars>>

\* The process ends; its connections are reset.
Crash ==
  /\ "crash" \in Faults
  /\ pc # "down"
  /\ Failure
  /\ pc' = "down"
  /\ UNCHANGED <<peerVars, backlog, stream, answers, tableVars, ready, scratch, job, handled,
                 dbVars, link>>

\* It is started again, with empty tables.
Start ==
  /\ pc = "down"
  /\ pc' = "select"
  /\ peer' = [c \in Conn |-> IF peer[c] = "idle" THEN "idle" ELSE "reset"]
  /\ backlog' = << >>
  /\ stream' = [c \in Conn |-> << >>]
  /\ clients' = << >> /\ connected' = {} /\ ready' = {}
  /\ scratch' = NoRequest /\ job' = NoJob
  /\ link' \in Connected
  /\ UNCHANGED <<nsent, answers, handled, dbVars, failures>>

ClientStep(c) == Connect(c) \/ SendName(c) \/ Leave(c) \/ \E r \in Request : SendRequest(c, r)

Next == ServerStep \/ SelectTimeout \/ (\E c \in Conn : ClientStep(c)) \/ Crash \/ Start

Spec == Init /\ [][Next]_vars

\* The server's thread keeps running, and a chat server sends its name right after it
\* has connected.  Nobody is obliged to send requests or to start anything again.
Fairness == WF_vars(ServerStep) /\ \A c \in Conn : WF_vars(SendName(c))

LiveSpec == Spec /\ Fairness
=============================================================================
